---- MODULE Spec2Model ----
(***************************************************************************)
(* Agent orchestration and tool-calling contract of the canvas designer    *)
(* backend: the retrying completion client (api/app/services/              *)
(* openai_service.py), the OpenAI-direct orchestrator (backend/app/agent/  *)
(* orchestrator.py) and the LangChain orchestrator (api/app/agent/         *)
(* orchestrator.py).                                                       *)
(*                                                                         *)
(* Python values are modelled as follows.  Text is a TLA+ string; the      *)
(* Python None is the sentinel PyNone.  A tool name is a tuple of          *)
(* one-character strings, so that startswith / slicing are computed        *)
(* character by character.  A decoded JSON value is a record [t, repr]     *)
(* carrying its Python type and its canonical rendering.                   *)
(***************************************************************************)
EXTENDS Integers, Sequences, FiniteSets, TLC

\* ------------------------------------------------------------------------
\* Bounds of the model
\* ------------------------------------------------------------------------
MaxToolCalls == 2

MaxMessages == 2

\* ------------------------------------------------------------------------
\* Program constants
\* ------------------------------------------------------------------------
ENABLE_RETRY == TRUE

MAX_RETRIES == 3

RETRY_WAIT_MULTIPLIER == 1

RETRY_WAIT_MIN == 2

RETRY_WAIT_MAX == 10

EXP_BASE == 2

DEFAULT_MODEL == "gpt-4-turbo"

API_DEFAULT_MODEL == "gpt-4-turbo"

AVAILABLE_MODELS == {"gpt-4-turbo", "gpt-4o", "gpt-4o-mini", "gpt-4"}

FALLBACK_MESSAGE == "I've processed your request and created the components."

CREATE_PREFIX == <<"c", "r", "e", "a", "t", "e", "_">>

\* ------------------------------------------------------------------------
\* Python values
\* ------------------------------------------------------------------------
PyNone == "<None>"

NoneName == <<"<None>">>

NoUsage == -1

Truthy(text) == text \notin {PyNone, ""}

NameTruthy(name) == name \notin {NoneName, <<>>}

Min2(a, b) == IF a <= b THEN a ELSE b

Max2(a, b) == IF a >= b THEN a ELSE b

RECURSIVE Pow(_, _)
Pow(b, e) == IF e = 0 THEN 1 ELSE b * Pow(b, e - 1)

\* ------------------------------------------------------------------------
\* Exceptions.  The classes of the openai package that call_openai_with_retry
\* can meet, and the isinstance tests the retry predicate performs on them:
\* APIError is the base class of every error the client raises.
\* ------------------------------------------------------------------------
OpenAIErrors ==
    {"RateLimitError", "APITimeoutError", "InternalServerError", "AuthenticationError"}

IsRateLimitError(e) == e = "RateLimitError"

IsAPITimeoutError(e) == e = "APITimeoutError"

IsAPIError(e) == e \in OpenAIErrors

RetryPredicateRateLimitOnly(e) == IsRateLimitError(e)

\* retry_if_exception_type((RateLimitError, APIError, APITimeoutError))
RetryPredicate(e) == IsRateLimitError(e) \/ IsAPIError(e) \/ IsAPITimeoutError(e)

StopAfterAttemptOffByOne(attempt) == attempt > MAX_RETRIES

\* stop_after_attempt(MAX_RETRIES)
StopAfterAttempt(attempt) == attempt >= MAX_RETRIES

\* wait_exponential(multiplier, min, max) for the attempt that just failed
WaitExponential(attempt) ==
    Max2(Max2(0, RETRY_WAIT_MIN),
         Min2(RETRY_WAIT_MULTIPLIER * Pow(EXP_BASE, attempt - 1), RETRY_WAIT_MAX))

\* What the retry decorator does with the outcome of attempt number `attempt`
\* ("ok" or the class of the exception the attempt raised).
RetryDecision(outcome, attempt) ==
    IF outcome = "ok" THEN "return"
    ELSE IF ~ENABLE_RETRY THEN "reraise"
    ELSE IF ~RetryPredicate(outcome) THEN "reraise"
    ELSE IF StopAfterAttempt(attempt) THEN "reraise"
    ELSE "sleep"

\* get_model_name: the key must be one of AVAILABLE_MODELS
ModelKnown(modelKey) == modelKey \in AVAILABLE_MODELS

\* ------------------------------------------------------------------------
\* Tool invocations as the completion service returns them
\* ------------------------------------------------------------------------
N_CREATE_RECTANGLE ==
    CREATE_PREFIX \o <<"r", "e", "c", "t", "a", "n", "g", "l", "e">>

N_CREATE_CREATE_X == CREATE_PREFIX \o CREATE_PREFIX \o <<"x">>

N_MOVE_OBJECT == <<"m", "o", "v", "e", "_", "o", "b", "j", "e", "c", "t">>

N_CREATED == <<"c", "r", "e", "a", "t", "e", "d">>

\* Argument payloads: JSON text, or None when the attribute is not a string
JSON_OBJECT == "{\"x\": 100}"

JSON_EMPTY_OBJECT == "{}"

JSON_INVALID == "{\"x\": "

JSON_NULL == "null"

JSON_NUMBER == "42"

JSON_LIST == "[1]"

\* json.loads: the decoded value, or the exception it raises
JsonLoads(payload) ==
    CASE payload = JSON_OBJECT -> [exc |-> "none", val |-> [t |-> "dict", repr |-> "{'x': 100}"]]
      [] payload = JSON_EMPTY_OBJECT -> [exc |-> "none", val |-> [t |-> "dict", repr |-> "{}"]]
      [] payload = JSON_NULL -> [exc |-> "none", val |-> [t |-> "NoneType", repr |-> "None"]]
      [] payload = JSON_NUMBER -> [exc |-> "none", val |-> [t |-> "int", repr |-> "42"]]
      [] payload = JSON_LIST -> [exc |-> "none", val |-> [t |-> "list", repr |-> "[1]"]]
      [] payload = PyNone -> [exc |-> "TypeError", val |-> [t |-> "NoneType", repr |-> "None"]]
      [] OTHER -> [exc |-> "JSONDecodeError", val |-> [t |-> "NoneType", repr |-> "None"]]

\* len(value) is defined for sized values only
HasLen(val) == val.t \in {"dict", "list", "str"}

\* One element of message.tool_calls.  hasFunction = FALSE stands for a
\* `function` attribute that is None (the name and arguments are then unreadable).
ToolCall(hasFunction, name, arguments) ==
    [hasFunction |-> hasFunction, name |-> name, arguments |-> arguments]

ToolCallValues ==
    { ToolCall(TRUE, N_CREATE_RECTANGLE, JSON_OBJECT),
      ToolCall(TRUE, N_CREATE_CREATE_X, JSON_LIST),
      ToolCall(TRUE, N_CREATED, JSON_NULL),
      ToolCall(TRUE, N_MOVE_OBJECT, JSON_NUMBER),
      ToolCall(TRUE, N_CREATE_RECTANGLE, JSON_INVALID),
      ToolCall(TRUE, <<>>, JSON_EMPTY_OBJECT),
      ToolCall(FALSE, NoneName, PyNone) }

SeqsUpTo(S, n) == UNION { [1..k -> S] : k \in 0..n }

\* A ChatCompletion response: choices is empty or holds one choice whose
\* message has content and tool_calls; usage is NoUsage or the token total.
Response(hasChoices, content, toolCalls, usage) ==
    [hasChoices |-> hasChoices, content |-> content,
     toolCalls |-> toolCalls, usage |-> usage]

NoResponse == Response(FALSE, PyNone, <<>>, NoUsage)

ContentValues == {PyNone, "", "I've created a button."}

UsageValues == {NoUsage, 150}

ResponseValues ==
    { Response(FALSE, PyNone, <<>>, u) : u \in UsageValues } \cup
    { Response(TRUE, c, <<>>, u) : c \in ContentValues, u \in UsageValues } \cup
    { Response(TRUE, c, tcs, 150) :
        c \in {PyNone, "I've created a button."},
        tcs \in SeqsUpTo(ToolCallValues, MaxToolCalls) }

\* ------------------------------------------------------------------------
\* CanvasAgent._extract_tool_calls (backend)
\* ------------------------------------------------------------------------
Entry(name, arguments) == [name |-> name, arguments |-> arguments]

\* The body of the try block for one tool call: the entries it appended and
\* the exception that left the block ("none" when it ran to its end or
\* reached a `continue`).
ExtractBody(tc) ==
    LET func_name == IF tc.hasFunction THEN tc.name ELSE NoneName
        decoded == JsonLoads(tc.arguments)
    IN  IF ~NameTruthy(func_name) THEN [appended |-> <<>>, exc |-> "none"]
        ELSE IF decoded.exc = "JSONDecodeError"
             THEN [appended |-> <<>>, exc |-> "none"]
        ELSE IF decoded.exc # "none"
             THEN [appended |-> <<>>, exc |-> decoded.exc]
        ELSE [appended |-> <<Entry(func_name, decoded.val)>>,
              exc |-> IF HasLen(decoded.val) THEN "none" ELSE "TypeError"]

ExtractHandlerJsonOnly(exc) == IF exc = "JSONDecodeError" THEN "none" ELSE exc

\* `except Exception` around the body: every exception is logged and the
\* loop continues; nothing propagates.
ExtractHandler(exc) == "none"

RECURSIVE ExtractLoop(_, _)
ExtractLoop(tcs, acc) ==
    IF tcs = <<>> THEN [calls |-> acc, exc |-> "none"]
    ELSE LET body == ExtractBody(Head(tcs))
             out == IF body.exc = "none" THEN "none" ELSE ExtractHandler(body.exc)
         IN  IF out # "none" THEN [calls |-> acc \o body.appended, exc |-> out]
             ELSE ExtractLoop(Tail(tcs), acc \o body.appended)

ExtractToolCalls(response) ==
    IF ~response.hasChoices THEN [calls |-> <<>>, exc |-> "none"]
    ELSE IF response.toolCalls = <<>> THEN [calls |-> <<>>, exc |-> "none"]
    ELSE ExtractLoop(response.toolCalls, <<>>)

\* ------------------------------------------------------------------------
\* CanvasAgent._format_actions (backend)
\* ------------------------------------------------------------------------
StartsWith(name, prefix) ==
    /\ Len(name) >= Len(prefix)
    /\ \A i \in 1..Len(prefix) : name[i] = prefix[i]

DropPrefixOffByOne(name) == SubSeq(name, 7, Len(name))

\* tool_name[7:]
DropPrefix(name) == SubSeq(name, 8, Len(name))

ActionType(name) == IF StartsWith(name, CREATE_PREFIX) THEN DropPrefix(name) ELSE name

Action(type, params) == [type |-> type, params |-> params]

RECURSIVE FormatActions(_)
FormatActions(tcs) ==
    IF tcs = <<>> THEN <<>>
    ELSE LET tc == Head(tcs)
         IN  IF ~NameTruthy(tc.name) THEN FormatActions(Tail(tcs))
             ELSE <<Action(ActionType(tc.name), tc.arguments)>> \o FormatActions(Tail(tcs))

\* ------------------------------------------------------------------------
\* Response envelopes of process_message
\* ------------------------------------------------------------------------
NoError == [type |-> "", message |-> ""]

Envelope(response, actions, toolCalls, tokensUsed, model, hasError, error) ==
    [response |-> response, actions |-> actions, toolCalls |-> toolCalls,
     tokensUsed |-> tokensUsed, model |-> model,
     hasError |-> hasError, error |-> error]

NoResult == Envelope(PyNone, <<>>, 0, 0, PyNone, FALSE, NoError)

\* str(e): the message of an exception of class e
ExcMessage(e) == "<" \o e \o ">"

\* The dictionary built in the `except Exception as e` branch
ErrorEnvelope(e, modelArg, defaultModel) ==
    Envelope("I encountered an error processing your request: " \o ExcMessage(e),
             <<>>, 0, 0,
             IF Truthy(modelArg) THEN modelArg ELSE defaultModel,
             TRUE, [type |-> e, message |-> ExcMessage(e)])

\* backend process_message, lines 281-288: the assistant's text
AssistantMessage(response) ==
    IF response.hasChoices
    THEN IF Truthy(response.content) THEN response.content ELSE FALLBACK_MESSAGE
    ELSE ""

\* backend process_message after call_openai_with_retry has returned
\* `response` (lines 281-318), inside the try block.
BackendSuccess(response, modelArg) ==
    LET model_key == IF Truthy(modelArg) THEN modelArg ELSE DEFAULT_MODEL
        ext == ExtractToolCalls(response)
        tokens_used == IF response.usage # NoUsage THEN response.usage ELSE 0
    IN  IF ext.exc # "none" THEN ErrorEnvelope(ext.exc, modelArg, DEFAULT_MODEL)
        ELSE Envelope(AssistantMessage(response), FormatActions(ext.calls),
                      Len(ext.calls), tokens_used, model_key, FALSE, NoError)

\* ------------------------------------------------------------------------
\* LangChain orchestrator (api): messages returned by agent.invoke
\* ------------------------------------------------------------------------
ARGS_DICT == [t |-> "dict", repr |-> "{'x': 100}"]

LcToolCall(name, args) == [name |-> name, args |-> args]

Message(type, content, toolCalls) ==
    [type |-> type, content |-> content, tool_calls |-> toolCalls]

\* What move_object returns for an object that does not exist, as the content
\* of the tool message
TOOL_RESULT_FAILED ==
    "{\"success\": false, \"objectId\": \"obj1\", \"message\": \"Object obj1 not found\"}"

MessageValues ==
    { Message("human", "Create a login form", <<>>),
      Message("ai", "", <<LcToolCall(N_CREATE_RECTANGLE, ARGS_DICT),
                          LcToolCall(N_MOVE_OBJECT, ARGS_DICT)>>),
      Message("ai", "Working on it", <<LcToolCall(N_CREATE_RECTANGLE, ARGS_DICT)>>),
      Message("ai", "", <<LcToolCall(<<>>, ARGS_DICT)>>),
      Message("tool", "{\"success\": true}", <<>>),
      Message("tool", TOOL_RESULT_FAILED, <<>>),
      Message("ai", "", <<>>),
      Message("ai", "I've created a login form.", <<>>) }

AgentExceptions == {"RateLimitError", "AuthenticationError", "GraphRecursionError"}

\* _extract_tool_calls_from_messages
RECURSIVE LcExtractFromMessage(_)
LcExtractFromMessage(tcs) ==
    IF tcs = <<>> THEN <<>>
    ELSE (IF NameTruthy(Head(tcs).name)
          THEN <<Entry(Head(tcs).name, Head(tcs).args)>> ELSE <<>>)
         \o LcExtractFromMessage(Tail(tcs))

RECURSIVE ExtractToolCallsFromMessages(_)
ExtractToolCallsFromMessages(messages) ==
    IF messages = <<>> THEN <<>>
    ELSE LcExtractFromMessage(Head(messages).tool_calls)
         \o ExtractToolCallsFromMessages(Tail(messages))

\* The content of the last message that is an AI message with content
RECURSIVE LastAiContent(_)
LastAiContent(messages) ==
    IF messages = <<>> THEN ""
    ELSE LET msg == messages[Len(messages)]
         IN  IF Truthy(msg.content) /\ msg.type = "ai" THEN msg.content
             ELSE LastAiContent(SubSeq(messages, 1, Len(messages) - 1))

ApiAssistantMessage(messages) ==
    LET found == LastAiContent(messages)
    IN  IF ~Truthy(found) THEN FALLBACK_MESSAGE ELSE found

\* api process_message after agent.invoke has returned (lines 156-193)
ApiSuccess(messages, modelArg) ==
    LET model_key == IF Truthy(modelArg) THEN modelArg ELSE API_DEFAULT_MODEL
        tool_calls == ExtractToolCallsFromMessages(messages)
    IN  Envelope(ApiAssistantMessage(messages), <<>>, Len(tool_calls), 0,
                 model_key, FALSE, NoError)

\* ------------------------------------------------------------------------
\* State
\* ------------------------------------------------------------------------
VARIABLES
    keyOk,        \* settings.OPENAI_API_KEY is set to a usable key
    client,       \* the module-level OpenAI client: "none" or "ready"
    pc,           \* "idle", "retrying" (inside call_openai_with_retry), "done"
    caller,       \* who started the current operation
    argModel,     \* the `model` argument of process_message (PyNone if absent)
    callModel,    \* the `model` argument of call_openai_with_retry
    attemptLog,   \* outcome of every attempt of the current call, in order
    createCalls,  \* invocations of chat.completions.create in the current call
    waits,        \* seconds slept between the attempts of the current call
    callState,    \* "none", "pending", "returned", "raised"
    callExc,      \* class of the exception call_openai_with_retry raised
    served,       \* response produced by the latest successful create
    callResult,   \* value call_openai_with_retry returned
    extractIn,    \* response last given to _extract_tool_calls
    extracted,    \* [calls, exc] of the last _extract_tool_calls
    formatIn,     \* tool calls last given to _format_actions
    actions,      \* list the last _format_actions returned
    agentMessages,\* messages the LangChain agent run returned
    result,       \* dictionary process_message returned
    invokeCalls,  \* invocations of agent.invoke in the current operation
    escaped       \* class of the exception that reached process_message's caller

coreVars == <<keyOk, client, pc, caller, argModel, callModel, attemptLog, createCalls,
          waits, callState, callExc, served, callResult, extractIn, extracted,
          formatIn, actions, agentMessages, result, invokeCalls, escaped>>

ModelArgs == {PyNone, "gpt-4o", "not-a-real-model"}

\* Model keys given to call_openai_with_retry by callers other than the agent
DirectModels == {"gpt-4-turbo", "not-a-real-model"}

NoExtract == [calls |-> <<>>, exc |-> "none"]

\* Tool-call dictionaries as _extract_tool_calls hands them to _format_actions
EntryValues ==
    { Entry(n, v) : n \in {N_CREATE_RECTANGLE, N_CREATE_CREATE_X, N_MOVE_OBJECT,
                           N_CREATED, CREATE_PREFIX},
                    v \in {ARGS_DICT, [t |-> "dict", repr |-> "{}"]} }

\* ------------------------------------------------------------------------
\* State of the HTTP routes and of stream_message (api)
\* ------------------------------------------------------------------------
VARIABLES
    rpc,           \* "idle", "streaming" (the SSE generator is running), "done"
    app,           \* the application that serves the request: "api" or "backend"
    endpoint,      \* "none", "chat", "chat-stream"
    reqMessage,    \* request.message, a tuple of characters
    reqModel,      \* request.model (PyNone if absent)
    status,        \* HTTP status of the response (0 before there is one)
    detail,        \* detail of the HTTPException raised, [error, detail]
    body,          \* the ChatResponse returned with a 200
    agentCalls,    \* calls of process_message / stream_message for the request
    agentOut,      \* what process_message did: [exc, result, messages]
    ranModel,      \* the model the agent run of the request used (PyNone: no run)
    events,        \* events stream_message has yielded
    sse,           \* events event_generator has yielded
    toolCallCount, \* tool_call_count of stream_message
    finalMessage,  \* final_message of stream_message
    toolResults,   \* tool-result messages the agent stream has delivered
    chunks         \* chunks the agent stream has delivered

routeVars == <<rpc, app, endpoint, reqMessage, reqModel, status, detail, body,
               agentCalls, agentOut, ranModel, events, sse, toolCallCount, finalMessage, toolResults,
               chunks>>

NoDetail == [error |-> "", detail |-> ""]

AgentOut(exc, res, messages) == [exc |-> exc, result |-> res, messages |-> messages]

NoAgentOut == AgentOut("none", NoResult, <<>>)

RouteInit ==
    /\ rpc = "idle"
    /\ app = "none"
    /\ endpoint = "none"
    /\ reqMessage = <<>>
    /\ reqModel = PyNone
    /\ status = 0
    /\ detail = NoDetail
    /\ body = NoResult
    /\ agentCalls = 0
    /\ agentOut = NoAgentOut
    /\ ranModel = PyNone
    /\ events = <<>>
    /\ sse = <<>>
    /\ toolCallCount = 0
    /\ finalMessage = ""
    /\ toolResults = 0
    /\ chunks = 0

\* ------------------------------------------------------------------------
\* State of the application startup and of validate_tool_definitions
\* ------------------------------------------------------------------------
VARIABLES
    spc,           \* "idle", "done"
    startOp,       \* "none", "validate" (a direct call), "startup"
    startApp,      \* the application that starts: "api" or "backend"
    registry,      \* TOOL_DEFINITIONS
    validated,     \* what validate_tool_definitions raised ("none": it returned)
    startupExc,    \* the exception startup_event raised
    completed,     \* startup_event ran to "Application startup complete"
    openai,        \* connection test: "skipped", "ok", "failed"
    firebase       \* Firebase initialisation: "skipped", "ok", "failed"

startupVars == <<spc, startOp, startApp, registry, validated, startupExc,
                 completed, openai, firebase>>

StartupInit ==
    /\ spc = "idle"
    /\ startOp = "none"
    /\ startApp = "none"
    /\ registry = <<>>
    /\ validated = "none"
    /\ startupExc = "none"
    /\ completed = FALSE
    /\ openai = "skipped"
    /\ firebase = "skipped"

\* ------------------------------------------------------------------------
\* State of write_canvas_actions_to_firestore
\* ------------------------------------------------------------------------
VARIABLES
    wpc,           \* "idle", "done"
    fbInit,        \* is_firebase_initialized()
    writeIn,       \* the `actions` argument
    written,       \* indices of the actions whose document is in Firestore, in order
    commitExc,     \* what the Firestore service does to a commit: "none" or an error
    writeResult,   \* the dictionary returned
    writeExc       \* the exception raised to the caller

storeVars == <<wpc, fbInit, writeIn, written, commitExc, writeResult, writeExc>>

WriteResult(success, objectsCreated, hasError) ==
    [success |-> success, objectsCreated |-> objectsCreated, hasError |-> hasError]

NoWriteResult == WriteResult(FALSE, 0, FALSE)

StoreInit ==
    /\ wpc = "idle"
    /\ fbInit = FALSE
    /\ writeIn = <<>>
    /\ written = <<>>
    /\ commitExc = "none"
    /\ writeResult = NoWriteResult
    /\ writeExc = "none"


\* ------------------------------------------------------------------------
\* State of the comparison of the two modes on one agent run
\* ------------------------------------------------------------------------
VARIABLES
    qpc,           \* "idle", "done"
    run,           \* the turns of the agent run
    streamed,      \* the last event stream_message yields for the run
    batched        \* what process_message returns for the run

runVars == <<qpc, run, streamed, batched>>

RunInit ==
    /\ qpc = "idle"
    /\ run = <<>>
    /\ streamed = [event |-> "none", message |-> "", toolCalls |-> 0]
    /\ batched = NoResult


\* ------------------------------------------------------------------------
\* State of the prompt assembly (backend): module data and requests
\* ------------------------------------------------------------------------
VARIABLES
    loaded,        \* app.agent.prompts has been imported
    fewShot,       \* FEW_SHOT_EXAMPLES, the module-level list
    fewShot0,      \* FEW_SHOT_EXAMPLES as the module defined it
    toolDefs,      \* TOOL_DEFINITIONS, the module-level list
    requests       \* per request: phase, user message, messages, tools

promptVars == <<loaded, fewShot, fewShot0, toolDefs, requests>>

Requests == {"r1", "r2"}

IdleRequest == [phase |-> "idle", user |-> "", messages |-> <<>>, tools |-> <<>>]

\* The tool schema of the module: two well-formed function tools
TOOL_DEFINITIONS ==
    << [name |-> "create_rectangle", properties |-> {"x", "y", "width"},
        required |-> <<"x", "y">>],
       [name |-> "create_circle", properties |-> {"x", "y", "radius"},
        required |-> <<"x", "y", "radius">>] >>

PromptInit ==
    /\ loaded = FALSE
    /\ fewShot = <<>>
    /\ fewShot0 = <<>>
    /\ toolDefs = TOOL_DEFINITIONS
    /\ requests = [r \in Requests |-> IdleRequest]


\* Document preparation of write_canvas_actions_to_firestore
VARIABLES dpc, docAction, docOut
docVars == <<dpc, docAction, docOut>>

ZERO == <<"0">>

\* action.get('params', {}) when the action has no params
EMPTY_PARAMS == [k \in {} |-> ZERO]

\* The action dictionaries given to the write: type absent, None, or a text;
\* params absent, None, or a dictionary
DocAction(hasType, type, hasParams, paramsNone, params) ==
    [hasType |-> hasType, type |-> type, hasParams |-> hasParams,
     paramsNone |-> paramsNone, params |-> params]

NoAction == DocAction(FALSE, <<>>, FALSE, FALSE, EMPTY_PARAMS)
NoDocument == [exc |-> "none", doc |-> EMPTY_PARAMS]

DocInit ==
    /\ dpc = "idle"
    /\ docAction = NoAction
    /\ docOut = NoDocument



\* The LangChain canvas tools (langchain_tools.py)
VARIABLES
    tpc,           \* "idle" | "done"
    store,         \* Firestore objects collection: id -> document
    rtdb,          \* Realtime DB objectPositions: the ids that have a position
    storeBefore,   \* the collection when the running call started
    rtdbBefore,    \* the positions when the running call started
    toolCall,      \* the running call: tool, objectId, service outcomes
    toolResult,    \* the dictionary the call returned
    toolExc,       \* the exception that left the call
    fsWrites,      \* document-store writes the call applied
    rtdbWrites,    \* live-update writes the call applied
    prevMissing    \* the call before this one returned 'not found'

toolVars == <<tpc, store, rtdb, storeBefore, rtdbBefore, toolCall, toolResult, toolExc, fsWrites, rtdbWrites, prevMissing>>

NO_OBJECTS == [k \in {} |-> [type |-> "", edited |-> FALSE]]

ToolResult(success, objectId, message) ==
    [success |-> success, objectId |-> objectId, message |-> message]

NoToolResult == ToolResult(FALSE, "", "")

CanvasCall(name, objectId, radiusGiven, fsFail, rtdbOutcome) ==
    [name |-> name, objectId |-> objectId, radiusGiven |-> radiusGiven,
     fsFail |-> fsFail, rtdbOutcome |-> rtdbOutcome]

NoCanvasCall == CanvasCall("", "", FALSE, "none", "ok")

ToolInit ==
    /\ tpc = "idle"
    /\ store = NO_OBJECTS
    /\ rtdb = {}
    /\ storeBefore = NO_OBJECTS
    /\ rtdbBefore = {}
    /\ toolCall = NoCanvasCall
    /\ toolResult = NoToolResult
    /\ toolExc = "none"
    /\ fsWrites = 0
    /\ rtdbWrites = 0
    /\ prevMissing = FALSE

otherVars == <<routeVars, startupVars, storeVars, runVars, promptVars, docVars, toolVars>>

vars == <<coreVars, otherVars>>

CoreInit ==
    /\ keyOk \in BOOLEAN
    /\ client = "none"
    /\ pc = "idle"
    /\ caller = "none"
    /\ argModel = PyNone
    /\ callModel = PyNone
    /\ attemptLog = <<>>
    /\ createCalls = 0
    /\ waits = <<>>
    /\ callState = "none"
    /\ callExc = "none"
    /\ served = NoResponse
    /\ callResult = NoResponse
    /\ extractIn = NoResponse
    /\ extracted = NoExtract
    /\ formatIn = <<>>
    /\ actions = <<>>
    /\ agentMessages = <<>>
    /\ invokeCalls = 0
    /\ result = NoResult
    /\ escaped = "none"

Init == CoreInit /\ RouteInit /\ StartupInit /\ StoreInit /\ RunInit /\ PromptInit /\ DocInit /\ ToolInit

\* The routes, the startup and the Firestore write do not read the API key
ServerInit == Init /\ keyOk = TRUE

\* ------------------------------------------------------------------------
\* call_openai_with_retry
\* ------------------------------------------------------------------------
\* A caller other than the orchestrator invokes call_openai_with_retry.
CallDirect(m) ==
    /\ pc = "idle"
    /\ pc' = "retrying"
    /\ caller' = "direct"
    /\ callModel' = m
    /\ callState' = "pending"
    /\ UNCHANGED <<keyOk, client, argModel, attemptLog, createCalls, waits, callExc,
                   served, callResult, extractIn, extracted, formatIn, actions,
                   agentMessages, result, escaped>>
    /\ UNCHANGED invokeCalls
    /\ UNCHANGED otherVars

\* Python binds the arguments of process_message(user_message, session_id,
\* model=None) before its body runs: a call without session_id raises.
BindArguments(hasSession) == IF hasSession THEN "none" ELSE "TypeError"

\* backend CanvasAgent.process_message up to its call of call_openai_with_retry
BackendProcessMessage(hasSession, m) ==
    /\ pc = "idle"
    /\ caller' = "backend"
    /\ argModel' = m
    /\ IF BindArguments(hasSession) # "none"
       THEN /\ escaped' = BindArguments(hasSession)
            /\ pc' = "done"
            /\ UNCHANGED <<callModel, callState>>
       ELSE /\ escaped' = "none"
            /\ pc' = "retrying"
            /\ callModel' = (IF Truthy(m) THEN m ELSE DEFAULT_MODEL)
            /\ callState' = "pending"
    /\ UNCHANGED <<keyOk, client, attemptLog, createCalls, waits, callExc, served,
                   callResult, extractIn, extracted, formatIn, actions,
                   agentMessages, result>>
    /\ UNCHANGED invokeCalls
    /\ UNCHANGED otherVars

\* The effects of what follows call_openai_with_retry in its caller.
AfterCall(state, exc, response) ==
    IF caller = "backend"
    THEN IF state = "raised"
         THEN /\ result' = ErrorEnvelope(exc, argModel, DEFAULT_MODEL)
              /\ UNCHANGED <<extractIn, extracted, formatIn, actions>>
         ELSE /\ result' = BackendSuccess(response, argModel)
              /\ extractIn' = response
              /\ extracted' = ExtractToolCalls(response)
              /\ IF ExtractToolCalls(response).exc = "none"
                 THEN /\ formatIn' = ExtractToolCalls(response).calls
                      /\ actions' = FormatActions(ExtractToolCalls(response).calls)
                 ELSE UNCHANGED <<formatIn, actions>>
    ELSE UNCHANGED <<result, extractIn, extracted, formatIn, actions>>

\* One attempt of the decorated function: the body of call_openai_with_retry
\* runs once and the retry decorator decides what follows.
Attempt(createOutcome, response) ==
    /\ pc = "retrying"
    /\ LET attempt == Len(attemptLog) + 1
           clientExc == IF client = "none" /\ ~keyOk THEN "ValueError" ELSE "none"
           modelExc == IF ModelKnown(callModel) THEN "none" ELSE "ValueError"
           outcome == IF clientExc # "none" THEN clientExc
                      ELSE IF modelExc # "none" THEN modelExc
                      ELSE createOutcome
           created == clientExc = "none" /\ modelExc = "none"
           decision == RetryDecision(outcome, attempt)
       IN  /\ client' = (IF clientExc = "none" THEN "ready" ELSE client)
           /\ attemptLog' = Append(attemptLog, outcome)
           /\ createCalls' = (IF created THEN createCalls + 1 ELSE createCalls)
           /\ served' = (IF outcome = "ok" THEN response ELSE served)
           /\ outcome # "ok" => response = NoResponse
           /\ ~created => createOutcome = "ok"
           /\ CASE decision = "sleep" ->
                     /\ waits' = Append(waits, WaitExponential(attempt))
                     /\ UNCHANGED <<pc, callState, callExc, callResult, result,
                                    extractIn, extracted, formatIn, actions>>
                [] decision = "return" ->
                     /\ pc' = "done"
                     /\ callState' = "returned"
                     /\ callResult' = response
                     /\ AfterCall("returned", "none", response)
                     /\ UNCHANGED <<waits, callExc>>
                [] decision = "reraise" ->
                     /\ pc' = "done"
                     /\ callState' = "raised"
                     /\ callExc' = outcome
                     /\ AfterCall("raised", outcome, NoResponse)
                     /\ UNCHANGED <<waits, callResult>>
    /\ UNCHANGED <<keyOk, caller, argModel, callModel, agentMessages, escaped>>
    /\ UNCHANGED invokeCalls
    /\ UNCHANGED otherVars

\* ------------------------------------------------------------------------
\* api CanvasAgent.process_message (LangChain): the whole handler
\* ------------------------------------------------------------------------
ApiProcessMessage(m, invokeExc, messages) ==
    /\ pc = "idle"
    /\ pc' = "done"
    /\ caller' = "api"
    /\ argModel' = m
    /\ invokeExc # "none" => messages = <<>>
    /\ agentMessages' = messages
    /\ invokeCalls' = 1
    /\ result' = (IF invokeExc # "none"
                  THEN ErrorEnvelope(invokeExc, m, API_DEFAULT_MODEL)
                  ELSE ApiSuccess(messages, m))
    /\ extracted' = (IF invokeExc # "none" THEN NoExtract
                     ELSE [calls |-> ExtractToolCallsFromMessages(messages),
                           exc |-> "none"])
    /\ escaped' = "none"
    /\ UNCHANGED <<keyOk, client, callModel, attemptLog, createCalls, waits,
                   callState, callExc, served, callResult, extractIn, formatIn,
                   actions>>
    /\ UNCHANGED otherVars

\* ------------------------------------------------------------------------
\* Direct calls of the helpers, as the unit tests make them
\* ------------------------------------------------------------------------
ExtractDirect(response) ==
    /\ pc = "idle"
    /\ pc' = "done"
    /\ caller' = "extract"
    /\ extractIn' = response
    /\ extracted' = ExtractToolCalls(response)
    /\ UNCHANGED <<keyOk, client, argModel, callModel, attemptLog, createCalls,
                   waits, callState, callExc, served, callResult, formatIn,
                   actions, agentMessages, result, escaped>>
    /\ UNCHANGED invokeCalls
    /\ UNCHANGED otherVars

FormatDirect(tcs) ==
    /\ pc = "idle"
    /\ pc' = "done"
    /\ caller' = "format"
    /\ formatIn' = tcs
    /\ actions' = FormatActions(tcs)
    /\ UNCHANGED <<keyOk, client, argModel, callModel, attemptLog, createCalls,
                   waits, callState, callExc, served, callResult, extractIn,
                   extracted, agentMessages, result, escaped>>
    /\ UNCHANGED invokeCalls
    /\ UNCHANGED otherVars

\* The operation is over; the process serves the next one.  The OpenAI
\* client, once created, is kept.
Finish ==
    /\ pc = "done"
    /\ pc' = "idle"
    /\ caller' = "none"
    /\ argModel' = PyNone
    /\ callModel' = PyNone
    /\ attemptLog' = <<>>
    /\ createCalls' = 0
    /\ waits' = <<>>
    /\ callState' = "none"
    /\ callExc' = "none"
    /\ served' = NoResponse
    /\ callResult' = NoResponse
    /\ extractIn' = NoResponse
    /\ extracted' = NoExtract
    /\ formatIn' = <<>>
    /\ actions' = <<>>
    /\ agentMessages' = <<>>
    /\ invokeCalls' = 0
    /\ result' = NoResult
    /\ escaped' = "none"
    /\ UNCHANGED <<keyOk, client>>
    /\ UNCHANGED otherVars

Next ==
    \/ \E m \in DirectModels : CallDirect(m)
    \/ \E hasSession \in BOOLEAN, m \in ModelArgs : BackendProcessMessage(hasSession, m)
    \/ \E o \in {"ok"} \cup OpenAIErrors :
          \E r \in (IF o = "ok" THEN ResponseValues ELSE {NoResponse}) : Attempt(o, r)
    \/ \E m \in ModelArgs, e \in {"none"} \cup AgentExceptions :
          \E ms \in (IF e = "none" THEN SeqsUpTo(MessageValues, MaxMessages) ELSE {<<>>}) :
             ApiProcessMessage(m, e, ms)
    \/ \E r \in ResponseValues : ExtractDirect(r)
    \/ \E tcs \in SeqsUpTo(EntryValues, MaxToolCalls) : FormatDirect(tcs)
    \/ Finish

Spec == Init /\ [][Next]_vars

\* ------------------------------------------------------------------------
\* Properties of the retrying completion call
\* ------------------------------------------------------------------------
\* The error classes the specification calls retryable / non-retryable
ClaimRetryable == {"RateLimitError", "InternalServerError", "APITimeoutError"}

ClaimNonRetryable == {"AuthenticationError", "ValueError"}

AllAttemptsIn(S) == \A i \in 1..Len(attemptLog) : attemptLog[i] \in S

NonDecreasing(ws) == \A i \in 1..(Len(ws) - 1) : ws[i] <= ws[i + 1]

\* C1: when every attempt of call_openai_with_retry fails with a retryable
\* error, the completion call is invoked exactly MAX_RETRIES (3) times, a
\* 4th attempt is never made, and the exception of the last attempt is
\* raised to the caller.
C1_ExhaustedRetriesReraise ==
    /\ Len(attemptLog) <= MAX_RETRIES
    /\ createCalls <= MAX_RETRIES
    /\ (attemptLog # <<>> /\ AllAttemptsIn(ClaimRetryable)) =>
          \/ Len(attemptLog) < MAX_RETRIES /\ pc = "retrying" /\ callState = "pending"
          \/ /\ Len(attemptLog) = MAX_RETRIES
             /\ createCalls = MAX_RETRIES
             /\ pc = "done"
             /\ callState = "raised"
             /\ callExc = attemptLog[MAX_RETRIES]
             /\ callResult = NoResponse

C1_Witness ==
    /\ callState = "raised"
    /\ Len(attemptLog) = 3
    /\ AllAttemptsIn(ClaimRetryable)
    /\ attemptLog[1] = "RateLimitError"
    /\ attemptLog[3] = "APITimeoutError"
    /\ callExc = "APITimeoutError"

\* C2: a first attempt that fails with an error outside {rate limit, server
\* error, timeout} (authentication failure, unknown model key)
\* ends the call at once: one attempt, no wait, the error raised.
C2_NonRetryableRaisesImmediately ==
    (attemptLog # <<>> /\ attemptLog[1] \in ClaimNonRetryable) =>
        /\ pc = "done"
        /\ callState = "raised"
        /\ Len(attemptLog) = 1
        /\ waits = <<>>

\* C3: the wait after the 1st failed attempt is 2 seconds and the wait after
\* the 2nd failed attempt is 4 seconds; there is no third wait.
C3_BackoffDoubles ==
    /\ Len(waits) <= 2
    /\ Len(waits) >= 1 => waits[1] = 2
    /\ Len(waits) >= 2 => waits[2] = 4

\* C4: retryable failures on attempts 1 and 2 do not end the call, and a
\* success on attempt 3 makes call_openai_with_retry return that attempt's
\* response; the waits observed are non-decreasing and at most 10 seconds.
C4_ThirdAttemptSucceeds ==
    /\ (Len(attemptLog) \in 1..2 /\ AllAttemptsIn(ClaimRetryable)) =>
          pc = "retrying" /\ callState = "pending"
    /\ (/\ Len(attemptLog) = 3
        /\ attemptLog[1] \in ClaimRetryable
        /\ attemptLog[2] \in ClaimRetryable
        /\ attemptLog[3] = "ok") =>
          /\ pc = "done"
          /\ callState = "returned"
          /\ callExc = "none"
          /\ callResult = served
          /\ Len(waits) = 2
          /\ NonDecreasing(waits)
          /\ \A i \in 1..Len(waits) : waits[i] <= RETRY_WAIT_MAX

C4_Witness ==
    /\ Len(attemptLog) = 3
    /\ attemptLog[1] = "APITimeoutError"
    /\ attemptLog[2] = "InternalServerError"
    /\ attemptLog[3] = "ok"
    /\ callState = "returned"
    /\ callResult.hasChoices
    /\ Len(callResult.toolCalls) = MaxToolCalls

\* ------------------------------------------------------------------------
\* Properties of extraction and formatting
\* ------------------------------------------------------------------------
\* The tool invocations carried by the first choice of a response
Invocations(response) == IF response.hasChoices THEN response.toolCalls ELSE <<>>

\* An invocation is malformed when it has no function object, no name or an
\* empty name, or an argument payload json.loads cannot decode.
WellFormed(tc) ==
    /\ tc.hasFunction
    /\ tc.name # NoneName
    /\ Len(tc.name) > 0
    /\ JsonLoads(tc.arguments).exc = "none"

Malformed(tcs) == { i \in 1..Len(tcs) : ~WellFormed(tcs[i]) }

ExtractRan == caller \in {"backend", "extract"}

\* C5: _extract_tool_calls never raises and returns, for N invocations of
\* which M are malformed, exactly N - M entries, those of the well-formed
\* invocations in their original order; no choices or no tool calls give
\* the empty list.
C5_ExtractTotalOrdered ==
    ExtractRan =>
        LET tcs == Invocations(extractIn)
            kept == SelectSeq(tcs, WellFormed)
        IN  /\ extracted.exc = "none"
            /\ Len(extracted.calls) = Len(tcs) - Cardinality(Malformed(tcs))
            /\ Len(extracted.calls) = Len(kept)
            /\ \A i \in 1..Len(kept) :
                  /\ extracted.calls[i].name = kept[i].name
                  /\ extracted.calls[i].arguments = JsonLoads(kept[i].arguments).val

C5_Witness ==
    /\ ExtractRan
    /\ Len(Invocations(extractIn)) = MaxToolCalls
    /\ ~WellFormed(extractIn.toolCalls[1])
    /\ extractIn.toolCalls[1].arguments = JSON_INVALID
    /\ WellFormed(extractIn.toolCalls[MaxToolCalls])
    /\ Len(extracted.calls) = MaxToolCalls - 1

\* C6: every entry _extract_tool_calls returns has a non-empty name and
\* arguments that are a key-to-value map.
C6_EntriesAreNamedMaps ==
    ExtractRan =>
        \A i \in 1..Len(extracted.calls) :
            /\ NameTruthy(extracted.calls[i].name)
            /\ extracted.calls[i].arguments.t = "dict"

\* C7: _format_actions returns one action per tool call, in order; the type
\* is the tool name without one leading "create_" when the name starts with
\* it and the tool name itself otherwise; the params are the arguments.
C7_FormatStripsPrefixOnce ==
    /\ Len(actions) = Len(formatIn)
    /\ \A i \in 1..Len(formatIn) :
          /\ actions[i].params = formatIn[i].arguments
          /\ StartsWith(formatIn[i].name, CREATE_PREFIX) =>
                CREATE_PREFIX \o actions[i].type = formatIn[i].name
          /\ ~StartsWith(formatIn[i].name, CREATE_PREFIX) =>
                actions[i].type = formatIn[i].name

C7_Witness ==
    /\ caller = "format"
    /\ Len(formatIn) = MaxToolCalls
    /\ formatIn[1].name = N_CREATE_CREATE_X
    /\ actions[1].type = CREATE_PREFIX \o <<"x">>
    /\ formatIn[MaxToolCalls].name = N_CREATED
    /\ actions[MaxToolCalls].type = N_CREATED

\* ------------------------------------------------------------------------
\* Properties of process_message
\* ------------------------------------------------------------------------
Returned == pc = "done" /\ caller \in {"backend", "api"}

\* C8: no exception escapes process_message; a failure is returned as an
\* envelope with an error {type, message}, no actions, toolCalls = 0,
\* tokensUsed = 0 and the requested-or-default model.
C8_NoExceptionEscapes ==
    Returned =>
        /\ escaped = "none"
        /\ result.hasError =>
              /\ result.actions = <<>>
              /\ result.toolCalls = 0
              /\ result.tokensUsed = 0
              /\ result.model = (IF Truthy(argModel) THEN argModel ELSE DEFAULT_MODEL)
              /\ result.error.type # ""

\* C9: the response text of every non-error return of process_message is
\* non-empty.
C9_ResponseTextNonEmpty ==
    (Returned /\ escaped = "none" /\ ~result.hasError) => result.response # ""

\* C10: in every non-error result of process_message, of either
\* orchestrator, actions has exactly toolCalls entries, one per extracted
\* tool invocation, in order, with the creation prefix stripped.
C10_ActionsMatchToolCalls ==
    (Returned /\ escaped = "none" /\ ~result.hasError) =>
        /\ result.toolCalls = Len(extracted.calls)
        /\ Len(result.actions) = result.toolCalls
        /\ \A i \in 1..Len(result.actions) :
              result.actions[i].type = ActionType(extracted.calls[i].name)

\* ========================================================================
\* HTTP routes: POST /api/agent/chat (api and backend) and
\* POST /api/agent/chat-stream (api)
\* ========================================================================
nonRouteVars == <<coreVars, startupVars, storeVars, runVars, promptVars, docVars, toolVars>>

WHITESPACE == {" ", "\t", "\n", "\r", "\f"}

RECURSIVE LStrip(_)
LStrip(text) ==
    IF text # <<>> /\ Head(text) \in WHITESPACE THEN LStrip(Tail(text)) ELSE text

RECURSIVE RStrip(_)
RStrip(text) ==
    IF text # <<>> /\ text[Len(text)] \in WHITESPACE
    THEN RStrip(SubSeq(text, 1, Len(text) - 1)) ELSE text

\* str.strip()
Strip(text) == RStrip(LStrip(text))

\* `not request.message`, without the strip
MessageMissingNoStrip(message) == message = <<>>

\* `not request.message or not request.message.strip()`
MessageMissing(message) == message = <<>> \/ Strip(message) = <<>>

\* model_key = request.model if request.model else None
ModelKey(model) == IF Truthy(model) THEN model ELSE PyNone

\* A validate_model that accepts every key
ValidateModelAcceptAll(model_key) == "none"

\* validate_model: ValueError for a key that is not in AVAILABLE_MODELS
ValidateModel(model_key) ==
    IF model_key \notin AVAILABLE_MODELS THEN "ValueError" ELSE "none"

\* What the body of a handler's try block does: it returns a response, raises
\* an HTTPException, or raises another exception
Returned200(res, calls, out) ==
    [kind |-> "return", status |-> 200, detail |-> NoDetail, body |-> res,
     exc |-> "none", calls |-> calls, out |-> out]

RaisedHttp(code, error, text, calls, out) ==
    [kind |-> "http", status |-> code, detail |-> [error |-> error, detail |-> text],
     body |-> NoResult, exc |-> "HTTPException", calls |-> calls, out |-> out]

RaisedOther(e, calls, out) ==
    [kind |-> "exc", status |-> 0, detail |-> NoDetail, body |-> NoResult,
     exc |-> e, calls |-> calls, out |-> out]

MESSAGE_REQUIRED == "message is required and cannot be empty"

\* The validation both endpoints start with; "none" when the request passes
ValidateRequest(message, model) ==
    IF MessageMissing(message)
    THEN RaisedHttp(400, "", MESSAGE_REQUIRED, 0, NoAgentOut)
    ELSE IF Truthy(ModelKey(model)) /\ ValidateModel(ModelKey(model)) # "none"
         THEN RaisedHttp(400, "", ExcMessage("ValueError"), 0, NoAgentOut)
         ELSE Returned200(NoResult, 0, NoAgentOut)

\* agent.process_message(user_message=..., model=model_key) as the route of
\* application a calls it
RouteProcessMessage(a, model_key, invokeExc, messages) ==
    IF a = "backend"
    THEN AgentOut(BindArguments(FALSE), NoResult, <<>>)
    ELSE AgentOut("none",
                  IF invokeExc # "none"
                  THEN ErrorEnvelope(invokeExc, model_key, API_DEFAULT_MODEL)
                  ELSE ApiSuccess(messages, model_key),
                  messages)

\* The model of the agent that CanvasAgent.__init__ creates, the only one
\* agent.invoke and agent.astream run
AGENT_MODEL == "gpt-4-turbo"

\* ChatResponse(response, actions, toolCalls, tokensUsed, model)
ChatResponse(res) ==
    Envelope(res.response, res.actions, res.toolCalls, res.tokensUsed, res.model,
             FALSE, NoError)

\* The try block of chat
ChatTry(a, message, model, invokeExc, messages) ==
    LET checked == ValidateRequest(message, model)
        out     == RouteProcessMessage(a, ModelKey(model), invokeExc, messages)
    IN  IF checked.kind # "return" THEN checked
        ELSE IF out.exc # "none" THEN RaisedOther(out.exc, 1, out)
        ELSE IF out.result.hasError
             THEN RaisedHttp(500, out.result.error.type, out.result.error.message,
                             1, out)
             ELSE Returned200(ChatResponse(out.result), 1, out)

\* A chat without the `except HTTPException: raise` clause
ChatExceptNoReraise(tried) ==
    IF tried.kind = "return" THEN tried
    ELSE RaisedHttp(500, "InternalServerError",
                    "An unexpected error occurred: " \o ExcMessage(tried.exc),
                    tried.calls, tried.out)

\* The except clauses of chat: an HTTPException is re-raised, any other
\* exception becomes a 500
ChatExcept(tried) ==
    IF tried.kind \in {"return", "http"} THEN tried
    ELSE RaisedHttp(500, "InternalServerError",
                    "An unexpected error occurred: " \o ExcMessage(tried.exc),
                    tried.calls, tried.out)

RequestMessages ==
    { <<>>, <<" ">>, <<" ", "\t", "\n">>, <<" ", "h", "i">> }

RequestModels == {PyNone, "", "gpt-4o", "not-a-real-model"}

Apps == {"api", "backend"}

streamVars == <<events, sse, toolCallCount, finalMessage, toolResults, chunks>>

\* POST /api/agent/chat: the whole handler
Chat(a, message, model, invokeExc, messages) ==
    LET answer == ChatExcept(ChatTry(a, message, model, invokeExc, messages))
    IN  /\ rpc = "idle"
        /\ invokeExc # "none" => messages = <<>>
        /\ a = "backend" => invokeExc = "none" /\ messages = <<>>
        /\ rpc' = "done"
        /\ app' = a
        /\ endpoint' = "chat"
        /\ reqMessage' = message
        /\ reqModel' = model
        /\ status' = answer.status
        /\ detail' = answer.detail
        /\ body' = answer.body
        /\ agentCalls' = answer.calls
        /\ agentOut' = answer.out
        /\ ranModel' = (IF answer.calls = 1 /\ answer.out.exc = "none"
                        THEN AGENT_MODEL ELSE PyNone)
        /\ UNCHANGED streamVars
        /\ UNCHANGED nonRouteVars

\* ------------------------------------------------------------------------
\* stream_message (api) and the SSE generator of chat-stream
\* ------------------------------------------------------------------------
MaxChunks == 4

MaxGroup == 2

NoCount == -1

TOOL_RESULT_CREATED ==
    "{\"success\": true, \"objectId\": \"obj2\", \"message\": \"Created rectangle at (100, 100)\"}"

GENERIC_PROGRESS == "Successfully executed tool"

COMPLETE_FALLBACK == "I've completed your request."

StreamEvent(event, message, toolCalls) ==
    [event |-> event, message |-> message, toolCalls |-> toolCalls]

StreamMessage(type, content) == [type |-> type, content |-> content]

StreamMessageValues ==
    { StreamMessage("tool", TOOL_RESULT_CREATED),
      StreamMessage("tool", "ok"),
      StreamMessage("ai", ""),
      StreamMessage("ai", "Done: the form is on the canvas.") }

\* One update of one graph step: None, a dict without messages, or a dict
\* whose "messages" is a list
StepData(isNone, hasMessages, messages) ==
    [isNone |-> isNone, hasMessages |-> hasMessages, messages |-> messages]

StepDataValues ==
    { StepData(TRUE, FALSE, <<>>), StepData(FALSE, FALSE, <<>>) }
    \cup { StepData(FALSE, TRUE, ms) : ms \in SeqsUpTo(StreamMessageValues, MaxGroup) }

\* result["message"] of the parsed tool result, PyNone when json.loads raises
\* or the result has no "message"
ResultMessage(content) ==
    CASE content = TOOL_RESULT_CREATED -> "Created rectangle at (100, 100)"
      [] content = TOOL_RESULT_FAILED -> "Object obj1 not found"
      [] OTHER -> PyNone

ProgressMessage(content) ==
    IF ResultMessage(content) # PyNone THEN ResultMessage(content)
    ELSE GENERIC_PROGRESS

\* The body of the loop over the steps of a chunk (lines 243-288): the events
\* it yields, the new counters, and the exception it raises
StreamStep(data, count, final) ==
    IF data.isNone
    THEN [events |-> <<>>, count |-> count, final |-> final, exc |-> "AttributeError"]
    ELSE IF ~data.hasMessages \/ data.messages = <<>>
    THEN [events |-> <<>>, count |-> count, final |-> final, exc |-> "none"]
    ELSE LET last_message == data.messages[Len(data.messages)]
         IN  IF last_message.type = "tool"
             THEN [events |-> <<StreamEvent("progress",
                                            ProgressMessage(last_message.content),
                                            NoCount)>>,
                   count |-> count + 1, final |-> final, exc |-> "none"]
             ELSE IF last_message.type = "ai" /\ Truthy(last_message.content)
             THEN [events |-> <<>>, count |-> count,
                   final |-> last_message.content, exc |-> "none"]
             ELSE [events |-> <<>>, count |-> count, final |-> final, exc |-> "none"]

CompleteEvent(final, count) ==
    StreamEvent("complete", IF Truthy(final) THEN final ELSE COMPLETE_FALLBACK, count)

ErrorEvent(e) == StreamEvent("error", ExcMessage(e), NoCount)

\* A stream_message that yields the completion event after the error event too
StreamTerminalAlwaysComplete(exc, final, count) ==
    IF exc = "none" THEN <<CompleteEvent(final, count)>>
    ELSE <<ErrorEvent(exc), CompleteEvent(final, count)>>

\* The last event of stream_message: "complete" after the loop (lines 293-297),
\* "error" from the except clause (lines 299-305)
StreamTerminal(exc, final, count) ==
    IF exc = "none" THEN <<CompleteEvent(final, count)>>
    ELSE <<ErrorEvent(exc)>>

\* json.dumps(event)
JsonDumps(e) ==
    "{\"event\": \"" \o e.event \o "\", \"message\": \"" \o e.message \o "\""
    \o (IF e.toolCalls # NoCount THEN ", \"toolCalls\": " \o ToString(e.toolCalls)
        ELSE "")
    \o "}"

\* event_generator: one SSE event for each event of stream_message
SseEvent(e) == [event |-> e.event, data |-> JsonDumps(e)]

RECURSIVE SseEvents(_)
SseEvents(es) ==
    IF es = <<>> THEN <<>> ELSE <<SseEvent(Head(es))>> \o SseEvents(Tail(es))

RECURSIVE CountTool(_)
CountTool(messages) ==
    IF messages = <<>> THEN 0
    ELSE (IF Head(messages).type = "tool" THEN 1 ELSE 0) + CountTool(Tail(messages))

StreamExceptions == {"RateLimitError", "GraphRecursionError"}

requestVars == <<app, endpoint, reqMessage, reqModel, status, detail, body,
                 agentCalls, agentOut, ranModel>>

\* POST /api/agent/chat-stream up to the return of the EventSourceResponse
ChatStream(message, model) ==
    LET checked == ValidateRequest(message, model)
    IN  /\ rpc = "idle"
        /\ app' = "api"
        /\ endpoint' = "chat-stream"
        /\ reqMessage' = message
        /\ reqModel' = model
        /\ status' = checked.status
        /\ detail' = checked.detail
        /\ body' = NoResult
        /\ agentOut' = NoAgentOut
        /\ IF checked.kind = "return"
           THEN rpc' = "streaming" /\ agentCalls' = 1 /\ ranModel' = AGENT_MODEL
           ELSE rpc' = "done" /\ agentCalls' = 0 /\ ranModel' = PyNone
        /\ UNCHANGED streamVars
        /\ UNCHANGED nonRouteVars

\* The agent stream delivers a chunk with one step
StreamChunk(data) ==
    LET step == StreamStep(data, toolCallCount, finalMessage)
        out  == step.events \o
                (IF step.exc # "none"
                 THEN StreamTerminal(step.exc, step.final, step.count) ELSE <<>>)
    IN  /\ rpc = "streaming"
        /\ chunks < MaxChunks
        /\ chunks' = chunks + 1
        /\ toolResults' = toolResults + CountTool(data.messages)
        /\ toolCallCount' = step.count
        /\ finalMessage' = step.final
        /\ events' = events \o out
        /\ sse' = sse \o SseEvents(out)
        /\ rpc' = (IF step.exc # "none" THEN "done" ELSE "streaming")
        /\ UNCHANGED requestVars
        /\ UNCHANGED nonRouteVars

\* The agent stream raises
StreamRaise(e) ==
    LET out == StreamTerminal(e, finalMessage, toolCallCount)
    IN  /\ rpc = "streaming"
        /\ events' = events \o out
        /\ sse' = sse \o SseEvents(out)
        /\ rpc' = "done"
        /\ UNCHANGED <<toolCallCount, finalMessage, toolResults, chunks>>
        /\ UNCHANGED requestVars
        /\ UNCHANGED nonRouteVars

\* The agent stream ends
StreamEnd ==
    LET out == StreamTerminal("none", finalMessage, toolCallCount)
    IN  /\ rpc = "streaming"
        /\ events' = events \o out
        /\ sse' = sse \o SseEvents(out)
        /\ rpc' = "done"
        /\ UNCHANGED <<toolCallCount, finalMessage, toolResults, chunks>>
        /\ UNCHANGED requestVars
        /\ UNCHANGED nonRouteVars

\* The response has been delivered; the next request starts from scratch
RouteFinish ==
    /\ rpc = "done"
    /\ rpc' = "idle"
    /\ app' = "none"
    /\ endpoint' = "none"
    /\ reqMessage' = <<>>
    /\ reqModel' = PyNone
    /\ status' = 0
    /\ detail' = NoDetail
    /\ body' = NoResult
    /\ agentCalls' = 0
    /\ agentOut' = NoAgentOut
    /\ ranModel' = PyNone
    /\ events' = <<>>
    /\ sse' = <<>>
    /\ toolCallCount' = 0
    /\ finalMessage' = ""
    /\ toolResults' = 0
    /\ chunks' = 0
    /\ UNCHANGED nonRouteVars

RouteNext ==
    \/ \E a \in Apps, message \in RequestMessages, model \in RequestModels,
          e \in {"none"} \cup AgentExceptions :
          \E ms \in (IF e = "none" /\ a = "api"
                     THEN SeqsUpTo(MessageValues, MaxMessages) ELSE {<<>>}) :
             Chat(a, message, model, e, ms)
    \/ \E message \in RequestMessages, model \in RequestModels :
          ChatStream(message, model)
    \/ \E data \in StepDataValues : StreamChunk(data)
    \/ \E e \in StreamExceptions : StreamRaise(e)
    \/ StreamEnd
    \/ RouteFinish

RouteSpec == ServerInit /\ [][RouteNext]_vars

\* ========================================================================
\* Properties of the routes and of the stream
\* ========================================================================
Terminal(e) == e.event \in {"complete", "error"}

Streamed == endpoint = "chat-stream" /\ status = 200

\* progress* while the stream runs, progress* and one terminal event at its end
WellFormedStream(es, finished) ==
    /\ \A i \in 1..Len(es) : es[i].event \in {"progress", "complete", "error"}
    /\ \A i \in 1..Len(es) : Terminal(es[i]) => (i = Len(es) /\ finished)
    /\ finished => (es # <<>> /\ Terminal(es[Len(es)]))

RECURSIVE CountEvents(_, _)
CountEvents(es, kind) ==
    IF es = <<>> THEN 0
    ELSE (IF Head(es).event = kind THEN 1 ELSE 0) + CountEvents(Tail(es), kind)

\* C12: the toolCalls of the complete event is the number of tool-result
\* messages of the run and the number of progress events before it, however
\* the tool results are grouped into chunks.
C12_ToolCallsCountsToolResults ==
    (Streamed /\ rpc = "done" /\ events[Len(events)].event = "complete") =>
        /\ events[Len(events)].toolCalls = toolResults
        /\ CountEvents(events, "progress") = toolResults

Blank(message) == \A i \in 1..Len(message) : message[i] \in WHITESPACE

Responded == rpc \in {"streaming", "done"} /\ endpoint \in {"chat", "chat-stream"}

\* C13: chat and chat-stream answer a message that is empty or all
\* whitespace with 400, and the agent is not invoked for that request.
C13_BlankMessageRejected ==
    (Responded /\ Blank(reqMessage)) =>
        /\ status = 400
        /\ rpc = "done"
        /\ agentCalls = 0
        /\ agentOut = NoAgentOut
        /\ events = <<>>

C13_Witness ==
    /\ Responded /\ reqMessage = <<" ", "\t", "\n">> /\ status = 400
    /\ endpoint = "chat-stream"

\* C14 as stated: a model value that is not a key of AVAILABLE_MODELS gets a
\* 400 before the agent is invoked; a model in the set, or no model, reaches
\* the agent.
C14_UnknownModelRejected ==
    (Responded /\ ~Blank(reqMessage)) =>
        /\ (reqModel # PyNone /\ reqModel \notin AVAILABLE_MODELS) =>
              (status = 400 /\ agentCalls = 0)
        /\ (reqModel = PyNone \/ reqModel \in AVAILABLE_MODELS) =>
              (status # 400 /\ agentCalls = 1)

\* C14, amended: a non-empty model value that is not a key of
\* AVAILABLE_MODELS gets a 400 before the agent is invoked; a model in the
\* set, no model, or the empty string as model, reaches the agent.
C14_NonEmptyUnknownModelRejected ==
    (Responded /\ ~Blank(reqMessage)) =>
        /\ (Truthy(reqModel) /\ reqModel \notin AVAILABLE_MODELS) =>
              (status = 400 /\ agentCalls = 0 /\ agentOut = NoAgentOut /\ events = <<>>)
        /\ (~Truthy(reqModel) \/ reqModel \in AVAILABLE_MODELS) =>
              (status # 400 /\ agentCalls = 1)

C14_Witness ==
    /\ Responded /\ ~Blank(reqMessage)
    /\ reqModel = "not-a-real-model" /\ status = 400 /\ agentCalls = 0

\* The empty string as model passes validation
C14_EmptyModelPasses ==
    /\ Responded /\ ~Blank(reqMessage) /\ reqModel = "" /\ agentCalls = 1

\* C15: process_message called with a model identifier outside the allowed
\* set makes no call of the completion service (no chat.completions.create,
\* no agent run) and returns an error result.
C15_InvalidModelFailsFast ==
    (Returned /\ Truthy(argModel) /\ argModel \notin AVAILABLE_MODELS
              /\ escaped = "none") =>
        /\ result.hasError
        /\ createCalls = 0
        /\ invokeCalls = 0

Chatted == endpoint = "chat" /\ rpc = "done"

AgentFailed == agentCalls = 1 /\ (agentOut.exc # "none" \/ agentOut.result.hasError)

\* C16: chat answers 500 with detail {error, detail} exactly when the agent
\* result has an error or an unexpected exception occurred, 200 with the
\* response fields otherwise, and a 400 of the validation stays a 400.
C16_StatusFollowsAgentResult ==
    Chatted =>
        /\ status \in {200, 400, 500}
        /\ status = 500 <=> AgentFailed
        /\ status = 500 => (detail.error # "" /\ detail.detail # "")
        /\ (status = 500 /\ agentOut.exc = "none") =>
              detail = [error |-> agentOut.result.error.type,
                        detail |-> agentOut.result.error.message]
        /\ (status = 500 /\ agentOut.exc # "none") => detail.error = "InternalServerError"
        /\ status = 200 <=> (agentCalls = 1 /\ ~AgentFailed)
        /\ status = 200 => body = ChatResponse(agentOut.result)
        /\ status = 400 <=> agentCalls = 0
        /\ status = 400 <=>
              (Blank(reqMessage)
               \/ (Truthy(reqModel) /\ reqModel \notin AVAILABLE_MODELS))

C16_Witness ==
    /\ Chatted /\ app = "api" /\ status = 500
    /\ detail.error = "RateLimitError" /\ agentOut.result.hasError

C16_WitnessOk == Chatted /\ status = 200 /\ body.toolCalls = 2

\* C17: when the agent run completes and a tool returned success = false,
\* chat answers 200 and every executed action, failed or not, is an entry
\* of the response's actions.
C17_FailedActionsListed ==
    (Chatted /\ app = "api" /\ agentCalls = 1 /\ ~AgentFailed
             /\ \E i \in 1..Len(agentOut.messages) :
                   agentOut.messages[i] = Message("tool", TOOL_RESULT_FAILED, <<>>)) =>
        /\ status = 200
        /\ Len(body.actions) = CountTool(agentOut.messages)

\* ========================================================================
\* Tool registry validation and application startup
\* ========================================================================
MaxTools == 2

\* One entry of TOOL_DEFINITIONS: which keys it has and what they hold
ToolDef(hasType, type, hasFunction, fields, name, hasPType, pType, hasProps, hasReq, props, req) ==
    [hasType |-> hasType, type |-> type, hasFunction |-> hasFunction,
     fields |-> fields, name |-> name, hasParamsType |-> hasPType,
     paramsType |-> pType, hasProperties |-> hasProps,
     hasRequired |-> hasReq, properties |-> props, required |-> req]

FUNC_FIELDS == {"name", "description", "parameters"}

FunctionTool(name, properties, required) ==
    ToolDef(TRUE, "function", TRUE, FUNC_FIELDS, name, TRUE, "object", TRUE, TRUE,
            properties, required)

T_RECTANGLE == FunctionTool("create_rectangle", {"x", "y", "width"}, <<"x", "y">>)

T_CIRCLE == FunctionTool("create_circle", {"x", "y", "radius"}, <<"x", "y", "radius">>)

\* A second, different tool under the name create_rectangle
T_RECTANGLE_AGAIN == FunctionTool("create_rectangle", {"left", "top"}, <<"left">>)

\* "text" is required and is not a property
T_TEXT_UNDECLARED == FunctionTool("create_text", {"x", "y"}, <<"x", "text">>)

T_NO_TYPE == [T_CIRCLE EXCEPT !.hasType = FALSE]

T_NOT_FUNCTION == [T_CIRCLE EXCEPT !.type = "tool"]

T_NO_DESCRIPTION == [T_CIRCLE EXCEPT !.fields = {"name", "parameters"}]

T_ARRAY_PARAMETERS == [T_CIRCLE EXCEPT !.paramsType = "array"]

ToolDefValues ==
    { T_RECTANGLE, T_CIRCLE, T_RECTANGLE_AGAIN, T_TEXT_UNDECLARED, T_NO_TYPE,
      T_NOT_FUNCTION, T_NO_DESCRIPTION, T_ARRAY_PARAMETERS }

Registries == SeqsUpTo(ToolDefValues, MaxTools)

\* The checks of one tool, in the order of the loop body (lines 284-323)
ValidateTool(tool) ==
    IF ~tool.hasType THEN "ValueError"
    ELSE IF tool.type # "function" THEN "ValueError"
    ELSE IF ~tool.hasFunction THEN "ValueError"
    ELSE IF ~(FUNC_FIELDS \subseteq tool.fields) THEN "ValueError"
    ELSE IF ~tool.hasParamsType THEN "ValueError"
    ELSE IF tool.paramsType # "object" THEN "ValueError"
    ELSE IF ~tool.hasProperties THEN "ValueError"
    ELSE IF ~tool.hasRequired THEN "ValueError"
    ELSE IF \E i \in 1..Len(tool.required) : tool.required[i] \notin tool.properties
         THEN "ValueError"
         ELSE "none"

RECURSIVE ValidateTools(_)
ValidateTools(tools) ==
    IF tools = <<>> THEN "none"
    ELSE IF ValidateTool(Head(tools)) # "none" THEN ValidateTool(Head(tools))
         ELSE ValidateTools(Tail(tools))

\* validate_tool_definitions: the exception it raises, "none" when it
\* returns True
ValidateToolDefinitions(tools) ==
    IF tools = <<>> THEN "ValueError" ELSE ValidateTools(tools)

\* A startup handler that logs the validation error and goes on
ValidationHandlerSwallow(exc) == "none"

\* except Exception as e: logger.error(...); raise
ValidationHandler(exc) == exc

\* except Exception as e: logger.warning(...)
NonFatalHandler(exc) == "none"

nonStartupVars == <<coreVars, routeVars, storeVars, runVars, promptVars, docVars, toolVars>>

\* validate_tool_definitions() called on a registry, as the tests call it
ValidateDirect(tools) ==
    /\ spc = "idle"
    /\ spc' = "done"
    /\ startOp' = "validate"
    /\ registry' = tools
    /\ validated' = ValidateToolDefinitions(tools)
    /\ UNCHANGED <<startApp, startupExc, completed, openai, firebase>>
    /\ UNCHANGED nonStartupVars

\* startup_event of application a: the whole handler. The backend tests the
\* OpenAI connection only; the api initialises Firebase too.
Startup(a, tools, openaiExc, firebaseExc) ==
    LET checked == ValidateToolDefinitions(tools)
        raised  == ValidationHandler(checked)
    IN  /\ spc = "idle"
        /\ a = "backend" => firebaseExc = "none"
        /\ checked # "none" => (openaiExc = "none" /\ firebaseExc = "none")
        /\ spc' = "done"
        /\ startOp' = "startup"
        /\ startApp' = a
        /\ registry' = tools
        /\ validated' = checked
        /\ IF raised # "none"
           THEN /\ startupExc' = raised
                /\ completed' = FALSE
                /\ openai' = "skipped"
                /\ firebase' = "skipped"
           ELSE /\ openai' = (IF openaiExc = "none" THEN "ok" ELSE "failed")
                /\ firebase' = (IF a = "backend" THEN "skipped"
                                ELSE IF firebaseExc = "none" THEN "ok" ELSE "failed")
                /\ startupExc' = (IF NonFatalHandler(openaiExc) # "none"
                                  THEN NonFatalHandler(openaiExc)
                                  ELSE NonFatalHandler(firebaseExc))
                /\ completed' = (NonFatalHandler(openaiExc) = "none"
                                 /\ NonFatalHandler(firebaseExc) = "none")
        /\ UNCHANGED nonStartupVars

StartupFinish ==
    /\ spc = "done"
    /\ spc' = "idle"
    /\ startOp' = "none"
    /\ startApp' = "none"
    /\ registry' = <<>>
    /\ validated' = "none"
    /\ startupExc' = "none"
    /\ completed' = FALSE
    /\ openai' = "skipped"
    /\ firebase' = "skipped"
    /\ UNCHANGED nonStartupVars

StartupNext ==
    \/ \E tools \in Registries : ValidateDirect(tools)
    \/ \E a \in Apps, tools \in Registries,
          oe \in {"none", "AuthenticationError"}, fe \in {"none", "FileNotFoundError"} :
          Startup(a, tools, oe, fe)
    \/ StartupFinish

StartupSpec == ServerInit /\ [][StartupNext]_vars

\* ------------------------------------------------------------------------
\* Properties of the registry validation and of the startup
\* ------------------------------------------------------------------------
UniqueNames(tools) ==
    \A i, j \in 1..Len(tools) : tools[i].name = tools[j].name => i = j

RequiredDeclared(tools) ==
    \A i \in 1..Len(tools) :
        \A k \in 1..Len(tools[i].required) :
            tools[i].required[k] \in tools[i].properties

\* Every entry is a function tool with name, description and an object schema
Structured(tools) ==
    \A i \in 1..Len(tools) :
        /\ tools[i].hasType /\ tools[i].type = "function" /\ tools[i].hasFunction
        /\ FUNC_FIELDS \subseteq tools[i].fields
        /\ tools[i].hasParamsType /\ tools[i].paramsType = "object"
        /\ tools[i].hasProperties /\ tools[i].hasRequired

ValidatedDirectly == spc = "done" /\ startOp = "validate"

\* C18: validate_tool_definitions succeeds if and only if the registry is
\* non-empty, every required parameter of every tool is in its properties,
\* and all tool names are unique; otherwise it raises ValueError.
C18_ValidateIffDeclaredAndUnique ==
    (ValidatedDirectly /\ Structured(registry)) =>
        /\ validated \in {"none", "ValueError"}
        /\ validated = "none" <=>
              (registry # <<>> /\ RequiredDeclared(registry) /\ UniqueNames(registry))

Started == spc = "done" /\ startOp = "startup"

\* C19: startup aborts, re-raising the error, whenever the tool-definition
\* validation fails; a failed OpenAI connection test or Firebase
\* initialisation is only logged and startup runs to completion.
C19_StartupAbortsOnlyOnValidation ==
    Started =>
        /\ startupExc # "none" <=> validated # "none"
        /\ startupExc # "none" => (startupExc = validated /\ ~completed
                                   /\ openai = "skipped" /\ firebase = "skipped")
        /\ validated = "none" => (completed /\ startupExc = "none" /\ openai # "skipped")
        /\ validated = "none" <=> ValidateToolDefinitions(registry) = "none"

C19_Witness ==
    /\ Started /\ startApp = "api" /\ completed
    /\ openai = "failed" /\ firebase = "failed"

C19_WitnessAbort == Started /\ ~completed /\ startupExc = "ValueError" /\ Len(registry) = 2

\* ========================================================================
\* write_canvas_actions_to_firestore
\* ========================================================================
MaxActions == 5

\* An action as the function meets it:
\*   "good"      a dictionary with type and params, accepted by Firestore
\*   "malformed" its params is not a dictionary: preparing the document raises
\*   "rejected"  its document is prepared, and Firestore refuses to write it
ActionKinds == {"good", "malformed", "rejected"}

ActionLists == SeqsUpTo(ActionKinds, MaxActions)

\* The loop over the actions (lines 179-229): the indices of the actions set
\* in the batch, in order; an action whose preparation raises is skipped
RECURSIVE Staged(_, _)
Staged(acts, i) ==
    IF i > Len(acts) THEN <<>>
    ELSE (IF acts[i] = "malformed" THEN <<>> ELSE <<i>>) \o Staged(acts, i + 1)

\* batch.commit(): all the writes of the batch or none
BatchCommit(acts, staged, serviceExc) ==
    IF serviceExc # "none" THEN serviceExc
    ELSE IF \E k \in 1..Len(staged) : acts[staged[k]] = "rejected" THEN "InvalidArgument"
    ELSE "none"

WriteOutcome(exc, res, docs) == [exc |-> exc, result |-> res, written |-> docs]

\* write_canvas_actions_to_firestore(actions)
WriteCanvasActions(initialized, acts, serviceExc) ==
    LET staged == Staged(acts, 1)
    IN  IF ~initialized THEN WriteOutcome("RuntimeError", NoWriteResult, <<>>)
        ELSE IF acts = <<>> THEN WriteOutcome("none", WriteResult(TRUE, 0, FALSE), <<>>)
        ELSE IF Len(staged) = 0
             THEN WriteOutcome("none", WriteResult(TRUE, 0, FALSE), <<>>)
        ELSE IF BatchCommit(acts, staged, serviceExc) # "none"
             THEN WriteOutcome("none", WriteResult(FALSE, 0, TRUE), <<>>)
             ELSE WriteOutcome("none", WriteResult(TRUE, Len(staged), FALSE), staged)

nonStoreVars == <<coreVars, routeVars, startupVars, runVars, promptVars, docVars, toolVars>>

\* initialize_firebase() succeeds
InitializeFirebase ==
    /\ wpc = "idle"
    /\ ~fbInit
    /\ fbInit' = TRUE
    /\ UNCHANGED <<wpc, writeIn, written, commitExc, writeResult, writeExc>>
    /\ UNCHANGED nonStoreVars

\* A call of write_canvas_actions_to_firestore: the whole function
WriteActions(acts, serviceExc) ==
    LET outcome == WriteCanvasActions(fbInit, acts, serviceExc)
    IN  /\ wpc = "idle"
        /\ wpc' = "done"
        /\ writeIn' = acts
        /\ commitExc' = serviceExc
        /\ written' = outcome.written
        /\ writeResult' = outcome.result
        /\ writeExc' = outcome.exc
        /\ UNCHANGED fbInit
        /\ UNCHANGED nonStoreVars

StoreFinish ==
    /\ wpc = "done"
    /\ wpc' = "idle"
    /\ writeIn' = <<>>
    /\ written' = <<>>
    /\ commitExc' = "none"
    /\ writeResult' = NoWriteResult
    /\ writeExc' = "none"
    /\ UNCHANGED fbInit
    /\ UNCHANGED nonStoreVars

StoreNext ==
    \/ InitializeFirebase
    \/ \E acts \in ActionLists, se \in {"none", "ServiceUnavailable"} :
          WriteActions(acts, se)
    \/ StoreFinish

StoreSpec == ServerInit /\ [][StoreNext]_vars

\* ------------------------------------------------------------------------
\* Properties of the Firestore write
\* ------------------------------------------------------------------------
FailedActions(acts) == { i \in 1..Len(acts) : acts[i] # "good" }

WrittenActions == { written[k] : k \in 1..Len(written) }

\* The result of a call tells which actions failed: no other list of as many
\* actions with other failures gives the same result
ResultIdentifiesFailures ==
    \A other \in ActionLists :
        (Len(other) = Len(writeIn)
         /\ WriteCanvasActions(fbInit, other, commitExc).result = writeResult) =>
            FailedActions(other) = FailedActions(writeIn)

\* C20: the actions are handled one at a time in the order given, an action
\* that fails never keeps the others from being written, and the result
\* tells which actions failed and which succeeded.
C20_FailureIsolatedAndReported ==
    (wpc = "done" /\ writeExc = "none" /\ commitExc = "none") =>
        /\ \A i \in 1..Len(writeIn) : writeIn[i] = "good" <=> i \in WrittenActions
        /\ \A j, k \in 1..Len(written) : j < k => written[j] < written[k]
        /\ ResultIdentifiesFailures

\* The batch had documents and its commit raised
CommitFailed ==
    /\ Staged(writeIn, 1) # <<>>
    /\ BatchCommit(writeIn, Staged(writeIn, 1), commitExc) # "none"

\* C21: when the store is not initialised, or the commit of the batch
\* fails, write_canvas_actions_to_firestore does not raise: it returns
\* success = false with objectsCreated = 0 and no document is persisted.
C21_StoreFailureDegrades ==
    (wpc = "done" /\ (~fbInit \/ CommitFailed)) =>
        /\ writeExc = "none"
        /\ ~writeResult.success
        /\ writeResult.objectsCreated = 0
        /\ written = <<>>

\* C26: with a valid model override, chat runs the completion with that
\* model and reports it in the model field; with no override the default
\* model is used and reported.
C26_ReportedModelIsUsedModel ==
    (Chatted /\ status = 200) =>
        /\ body.model = ranModel
        /\ Truthy(reqModel) => ranModel = reqModel
        /\ ~Truthy(reqModel) => ranModel = API_DEFAULT_MODEL

\* ========================================================================
\* One agent run seen by process_message and by stream_message (api)
\* ========================================================================
MaxTurns == 3

MaxParallel == 3

\* A turn of the agent: the model asks for `calls` tools in one AI message and
\* the tool node answers with one tool message for each, delivered in one
\* update (grouped) or in one update for each tool message
Turn(calls, grouped) == [calls |-> calls, grouped |-> grouped]

TurnValues == { Turn(k, g) : k \in 1..MaxParallel, g \in BOOLEAN }

RunValues == SeqsUpTo(TurnValues, MaxTurns)

RECURSIVE Repeat(_, _)
Repeat(x, n) == IF n = 0 THEN <<>> ELSE <<x>> \o Repeat(x, n - 1)

AI_CALL == LcToolCall(N_CREATE_RECTANGLE, ARGS_DICT)

TOOL_MESSAGE == Message("tool", TOOL_RESULT_CREATED, <<>>)

FINAL_MESSAGE == Message("ai", "I've created a login form.", <<>>)

\* The updates of one turn, each a list of messages
TurnUpdates(turn) ==
    << <<Message("ai", "", Repeat(AI_CALL, turn.calls))>> >>
    \o (IF turn.grouped THEN << Repeat(TOOL_MESSAGE, turn.calls) >>
        ELSE Repeat(<<TOOL_MESSAGE>>, turn.calls))

\* The updates agent.astream delivers for a run, the final answer last
RECURSIVE RunUpdates(_)
RunUpdates(turns) ==
    IF turns = <<>> THEN << <<FINAL_MESSAGE>> >>
    ELSE TurnUpdates(Head(turns)) \o RunUpdates(Tail(turns))

RECURSIVE Flatten(_)
Flatten(groups) ==
    IF groups = <<>> THEN <<>> ELSE Head(groups) \o Flatten(Tail(groups))

\* result["messages"] of agent.invoke for the same run
RunMessages(turns) ==
    <<Message("human", "Create a login form", <<>>)>> \o Flatten(RunUpdates(turns))

\* stream_message over the updates: its last event
RECURSIVE StreamUpdates(_, _, _)
StreamUpdates(updates, count, final) ==
    IF updates = <<>> THEN CompleteEvent(final, count)
    ELSE LET step == StreamStep(StepData(FALSE, TRUE, Head(updates)), count, final)
         IN  IF step.exc # "none" THEN ErrorEvent(step.exc)
             ELSE StreamUpdates(Tail(updates), step.count, step.final)

nonRunVars == <<coreVars, routeVars, startupVars, storeVars, promptVars, docVars, toolVars>>

\* The same run handled by process_message and by stream_message
HandleRun(turns) ==
    /\ qpc = "idle"
    /\ qpc' = "done"
    /\ run' = turns
    /\ streamed' = StreamUpdates(RunUpdates(turns), 0, "")
    /\ batched' = ApiSuccess(RunMessages(turns), PyNone)
    /\ UNCHANGED nonRunVars

RunFinish ==
    /\ qpc = "done"
    /\ qpc' = "idle"
    /\ run' = <<>>
    /\ streamed' = [event |-> "none", message |-> "", toolCalls |-> 0]
    /\ batched' = NoResult
    /\ UNCHANGED nonRunVars

RunNext ==
    \/ \E turns \in RunValues : HandleRun(turns)
    \/ RunFinish

RunSpec == ServerInit /\ [][RunNext]_vars

\* C30: for one and the same agent run, the toolCalls of the complete event
\* of stream_message equals the toolCalls process_message returns.
C30_StreamAndBatchCountsAgree ==
    qpc = "done" => (streamed.event = "complete" /\ streamed.toolCalls = batched.toolCalls)

\* ========================================================================
\* Prompt assembly: CanvasAgent._build_messages (backend)
\* ========================================================================
MaxExamples == 3

SYSTEM_PROMPT == "You are an expert UI designer ..."

PyStr(text) == [t |-> "str", repr |-> text]

PY_NONE == [t |-> "NoneType", repr |-> "None"]

EMPTY_DICT == [t |-> "dict", repr |-> "{}"]

RESULT_DICT == [t |-> "dict", repr |-> "{'success': True, 'objectId': 'rect_001'}"]

RESULT_JSON == "{\"success\": true, \"objectId\": \"rect_001\"}"

\* json.dumps of the values the examples hold
JsonDumpsValue(v) ==
    CASE v = ARGS_DICT -> PyStr(JSON_OBJECT)
      [] v = EMPTY_DICT -> PyStr(JSON_EMPTY_OBJECT)
      [] v = RESULT_DICT -> PyStr(RESULT_JSON)
      [] v = PY_NONE -> PyStr(JSON_NULL)
      [] OTHER -> PyStr("\"" \o v.repr \o "\"")

\* An element of tool_calls of an example
ExampleCall(hasFunction, hasArguments, name, arguments) ==
    [hasFunction |-> hasFunction, hasArguments |-> hasArguments, name |-> name,
     arguments |-> arguments]

\* A message of FEW_SHOT_EXAMPLES, or of the list _build_messages returns
Example(role, content, hasToolCalls, toolCalls) ==
    [role |-> role, content |-> content, hasToolCalls |-> hasToolCalls,
     tool_calls |-> toolCalls]

E_USER == Example("user", PyStr("Create a login form"), FALSE, <<>>)

E_ASSISTANT_CALLS ==
    Example("assistant", PY_NONE, TRUE,
            << ExampleCall(TRUE, TRUE, "create_rectangle", ARGS_DICT),
               ExampleCall(TRUE, TRUE, "create_text", EMPTY_DICT) >>)

E_TOOL_DICT == Example("tool", RESULT_DICT, FALSE, <<>>)

E_TOOL_TEXT == Example("tool", PyStr("ok"), FALSE, <<>>)

E_ASSISTANT_TEXT == Example("assistant", PyStr("I've created a complete login form."), FALSE, <<>>)

ExampleValues == {E_USER, E_ASSISTANT_CALLS, E_TOOL_DICT, E_TOOL_TEXT, E_ASSISTANT_TEXT}

ExampleLists == SeqsUpTo(ExampleValues, MaxExamples)

UserMessages == {"Create a login form", "Create a button"}

\* Lines 100-107: the copy of a tool call, its arguments JSON-encoded
ConvertCall(tc) ==
    IF tc.hasFunction /\ tc.hasArguments
    THEN [tc EXCEPT !.arguments = JsonDumpsValue(@)] ELSE tc

\* A loop body that encodes the tool calls and leaves the tool content alone
BuildExampleCallsOnly(example) ==
    IF example.role = "assistant" /\ example.hasToolCalls
    THEN [example EXCEPT !.tool_calls = [k \in DOMAIN @ |-> ConvertCall(@[k])]]
    ELSE example

\* Lines 94-115: the message appended for one example
BuildExample(example) ==
    LET converted ==
            IF example.role = "assistant" /\ example.hasToolCalls
            THEN [example EXCEPT !.tool_calls = [k \in DOMAIN @ |-> ConvertCall(@[k])]]
            ELSE example
    IN  IF converted.role = "tool" /\ converted.content.t = "dict"
        THEN [converted EXCEPT !.content = JsonDumpsValue(@)]
        ELSE converted

\* _build_messages(user_message): the list it returns
BuildMessages(examples, user_message) ==
    <<Example("system", PyStr(SYSTEM_PROMPT), FALSE, <<>>)>>
    \o [i \in DOMAIN examples |-> BuildExample(examples[i])]
    \o <<Example("user", PyStr(user_message), FALSE, <<>>)>>

\* A loop that assigns the arguments in the function dictionary of the
\* example itself
SharedCallAfterAliased(tc) == ConvertCall(tc)

\* func_copy = tool_call_copy["function"].copy() (line 102): the arguments
\* are assigned in the copy, the function dictionary of the example stays
SharedCallAfter(tc) == tc

\* What the loop leaves in an element of FEW_SHOT_EXAMPLES: tool_calls and
\* content are assigned in example.copy() (line 94), the arguments in the
\* function dictionaries
SharedExampleAfter(example) ==
    IF example.role = "assistant" /\ example.hasToolCalls
    THEN [example EXCEPT !.tool_calls = [k \in DOMAIN @ |-> SharedCallAfter(@[k])]]
    ELSE example

nonPromptVars == <<coreVars, routeVars, startupVars, storeVars, runVars, docVars, toolVars>>

\* The module app.agent.prompts is imported
LoadPrompts(examples) ==
    /\ ~loaded
    /\ loaded' = TRUE
    /\ fewShot' = examples
    /\ fewShot0' = examples
    /\ UNCHANGED <<toolDefs, requests>>
    /\ UNCHANGED nonPromptVars

\* Request r runs _build_messages (process_message, line 271)
BuildRequest(r, user_message) ==
    /\ loaded
    /\ requests[r].phase = "idle"
    /\ requests' = [requests EXCEPT ![r] =
                       [phase |-> "built", user |-> user_message,
                        messages |-> BuildMessages(fewShot, user_message),
                        tools |-> <<>>]]
    /\ fewShot' = [i \in DOMAIN fewShot |-> SharedExampleAfter(fewShot[i])]
    /\ UNCHANGED <<loaded, fewShot0, toolDefs>>
    /\ UNCHANGED nonPromptVars

\* Request r hands its messages and self.tool_definitions to
\* call_openai_with_retry (lines 274-279)
CallRequest(r) ==
    /\ requests[r].phase = "built"
    /\ requests' = [requests EXCEPT ![r].phase = "called", ![r].tools = toolDefs]
    /\ UNCHANGED <<loaded, fewShot, fewShot0, toolDefs>>
    /\ UNCHANGED nonPromptVars

\* Request r returns
RequestDone(r) ==
    /\ requests[r].phase = "called"
    /\ requests' = [requests EXCEPT ![r] = IdleRequest]
    /\ UNCHANGED <<loaded, fewShot, fewShot0, toolDefs>>
    /\ UNCHANGED nonPromptVars

PromptNext ==
    \/ \E examples \in ExampleLists : LoadPrompts(examples)
    \/ \E r \in Requests, um \in UserMessages : BuildRequest(r, um)
    \/ \E r \in Requests : CallRequest(r)
    \/ \E r \in Requests : RequestDone(r)

PromptSpec == ServerInit /\ [][PromptNext]_vars

\* ------------------------------------------------------------------------
\* Properties of the prompt assembly
\* ------------------------------------------------------------------------
Built(r) == requests[r].phase # "idle"

\* What the JSON text decodes to
JsonDecode(text) == IF text = RESULT_JSON THEN RESULT_DICT ELSE JsonLoads(text).val

Prefix(ms) == SubSeq(ms, 1, Len(ms) - 1)

\* C25: _build_messages(user_message) returns the system message, the
\* few-shot examples in their order, and a user message with user_message;
\* every example tool call's arguments and every tool content that was a
\* map is a JSON-encoded string of that map.
C25_BuildMessagesShape ==
    \A r \in Requests : Built(r) =>
        LET ms == requests[r].messages
            n  == Len(fewShot0)
        IN  /\ Len(ms) = n + 2
            /\ ms[1] = Example("system", PyStr(SYSTEM_PROMPT), FALSE, <<>>)
            /\ ms[n + 2] = Example("user", PyStr(requests[r].user), FALSE, <<>>)
            /\ \A i \in 1..n :
                  /\ ms[i + 1].role = fewShot0[i].role
                  /\ ms[i + 1].hasToolCalls = fewShot0[i].hasToolCalls
                  /\ Len(ms[i + 1].tool_calls) = Len(fewShot0[i].tool_calls)
                  /\ \A k \in 1..Len(fewShot0[i].tool_calls) :
                        /\ ms[i + 1].tool_calls[k].name = fewShot0[i].tool_calls[k].name
                        /\ ms[i + 1].tool_calls[k].arguments.t = "str"
                        /\ JsonDecode(ms[i + 1].tool_calls[k].arguments.repr)
                              = fewShot0[i].tool_calls[k].arguments
                  /\ IF fewShot0[i].role = "tool" /\ fewShot0[i].content.t = "dict"
                     THEN /\ ms[i + 1].content.t = "str"
                          /\ JsonDecode(ms[i + 1].content.repr) = fewShot0[i].content
                     ELSE ms[i + 1].content = fewShot0[i].content

C25_Witness ==
    /\ Built("r1")
    /\ fewShot0 = <<E_USER, E_ASSISTANT_CALLS, E_TOOL_DICT>>
    /\ requests["r1"].messages[3].tool_calls[1].arguments = PyStr(JSON_OBJECT)
    /\ requests["r1"].messages[4].content = PyStr(RESULT_JSON)

\* C27: no _build_messages or process_message call, in any interleaving,
\* changes FEW_SHOT_EXAMPLES or TOOL_DEFINITIONS: the example arguments stay
\* maps, and every request gets the same prefix and the same tool schema.
C27_SharedStateReadOnly ==
    loaded =>
        /\ fewShot = fewShot0
        /\ toolDefs = TOOL_DEFINITIONS
        /\ \A i \in 1..Len(fewShot) : \A k \in 1..Len(fewShot[i].tool_calls) :
              fewShot[i].tool_calls[k].arguments.t = "dict"
        /\ \A r1, r2 \in Requests : (Built(r1) /\ Built(r2)) =>
              Prefix(requests[r1].messages) = Prefix(requests[r2].messages)
        /\ \A r \in Requests : requests[r].phase = "called" =>
              requests[r].tools = TOOL_DEFINITIONS

C27_Witness ==
    /\ requests["r1"].phase = "called" /\ requests["r2"].phase = "built"
    /\ requests["r1"].user # requests["r2"].user
    /\ \E i \in 1..Len(fewShot0) : fewShot0[i] = E_ASSISTANT_CALLS

\* ------------------------------------------------------------------------
\* write_canvas_actions_to_firestore: the document built for one action
\* ------------------------------------------------------------------------
\* Values are texts (tuples of characters); None is NoneName.
SERVER_TIMESTAMP == <<"S", "E", "R", "V", "E", "R", "_", "T", "S">>
PARAM_VALUE == <<"v">>
T_RECT == <<"r", "e", "c", "t">>
T_CREATE_RECT == CREATE_PREFIX \o T_RECT
T_CREATE_X == CREATE_PREFIX \o <<"x">>

ParamKeys == {"x", "fill", "rotation", "metadata", "boxShadow", "type", "createdAt"}
ParamValues == {PARAM_VALUE, NoneName}
ParamDicts == UNION {[S -> ParamValues] : S \in SUBSET ParamKeys}

\* action.get('type', '')
GetType(action) == IF action.hasType THEN action.type ELSE <<>>

\* if action_type.startswith('create_'): action_type = action_type[7:]
StripCreate(action_type) ==
    IF StartsWith(action_type, CREATE_PREFIX) THEN DropPrefix(action_type) ELSE action_type

\* the literal the document starts from
BaseDocument(action_type) ==
    [k \in {"type", "createdAt", "rotation", "zIndex"} |->
        CASE k = "type" -> action_type
          [] k = "createdAt" -> SERVER_TIMESTAMP
          [] OTHER -> ZERO]

IncludeParamKeepNone(key, value) == key \notin {"metadata", "boxShadow"}

\* the branches of the loop over action_params.items()
IncludeParam(key, value) ==
    /\ key \notin {"metadata", "boxShadow"}
    /\ value # NoneName

\* for key, value in action_params.items(): ... document_data[key] = value
Flatten_params(document_data, action_params) ==
    LET set == {k \in DOMAIN action_params : IncludeParam(k, action_params[k])}
    IN  [k \in DOMAIN document_data \cup set |->
            IF k \in set THEN action_params[k] ELSE document_data[k]]

\* if 'x' not in document_data: document_data['x'] = 0 (likewise 'y')
DefaultXY(document_data) ==
    [k \in DOMAIN document_data \cup {"x", "y"} |->
        IF k \in DOMAIN document_data THEN document_data[k] ELSE ZERO]

\* The body of the per-action try: the document handed to batch.set, or the
\* exception the handler logs before moving to the next action.
PrepareDocument(action) ==
    LET action_type == GetType(action)
    IN  IF action_type = NoneName
        THEN [exc |-> "AttributeError", doc |-> EMPTY_PARAMS]
        ELSE IF action.hasParams /\ action.paramsNone
        THEN [exc |-> "AttributeError", doc |-> EMPTY_PARAMS]
        ELSE LET action_params == IF action.hasParams THEN action.params ELSE EMPTY_PARAMS
                 document_data == BaseDocument(StripCreate(action_type))
             IN  [exc |-> "none",
                  doc |-> DefaultXY(Flatten_params(document_data, action_params))]

TypeValues == {<<>>, T_RECT, T_CREATE_RECT, T_CREATE_X, NoneName}

nonDocVars == <<coreVars, routeVars, startupVars, storeVars, runVars, promptVars, toolVars>>

Prepare(action) ==
    /\ dpc = "idle"
    /\ docAction' = action
    /\ docOut' = PrepareDocument(action)
    /\ dpc' = "done"
    /\ UNCHANGED nonDocVars

DocFinish ==
    /\ dpc = "done"
    /\ dpc' = "idle"
    /\ docAction' = NoAction
    /\ docOut' = NoDocument
    /\ UNCHANGED nonDocVars

DocNext ==
    \/ /\ dpc = "idle"
       /\ \E hasType, hasParams, paramsNone \in BOOLEAN, type \in TypeValues, params \in ParamDicts :
          /\ (hasType \/ type = <<>>)
          /\ (hasParams \/ (~paramsNone /\ params = EMPTY_PARAMS))
          /\ (paramsNone => params = EMPTY_PARAMS)
          /\ Prepare(DocAction(hasType, type, hasParams, paramsNone, params))
    \/ DocFinish

DocSpec == ServerInit /\ [][DocNext]_vars

\* ------------------------------------------------------------------------
\* Properties of the prepared document
\* ------------------------------------------------------------------------
Prepared == dpc = "done" /\ docOut.exc = "none"

GivenParams == IF docAction.hasParams THEN docAction.params ELSE EMPTY_PARAMS

\* the params that supply a value the document can take
Supplied == {k \in DOMAIN GivenParams :
                k \notin {"metadata", "boxShadow"} /\ GivenParams[k] # NoneName}

ReportedTypes == {ActionType(n) : n \in {N_CREATE_RECTANGLE, N_MOVE_OBJECT, N_CREATE_CREATE_X}}

\* C29: the document's type is the action's type with the create_ prefix
\* removed once and is the type the orchestrator reported; no param can
\* replace the document's type or createdAt.
C29_TypeAndTimestampKept ==
    Prepared =>
        LET d == docOut.doc
            t == GetType(docAction)
        IN  /\ d["type"] = StripCreate(t)
            /\ (t \in ReportedTypes => d["type"] = t)
            /\ d["createdAt"] = SERVER_TIMESTAMP

\* without a param named type or createdAt the type is the stripped type
\* and the timestamp is the server's
C29_KeptWithoutOverridingParams ==
    (Prepared /\ Supplied \cap {"type", "createdAt"} = {}) =>
        /\ docOut.doc["type"] = StripCreate(GetType(docAction))
        /\ docOut.doc["createdAt"] = SERVER_TIMESTAMP

\* ------------------------------------------------------------------------
\* langchain_tools.py: the seven canvas tools
\* ------------------------------------------------------------------------
MaxDocs == 2

\* the ids Firestore generates for new documents, in the order it hands them out
ID_NAMES == <<"obj1", "obj2", "obj3", "obj4">>
ObjectIds == {ID_NAMES[i] : i \in 1..MaxDocs}
GHOST_ID == "ghost"

\* doc_ref = ...collection("objects").document(): an id no document has
NewId(objects) == ID_NAMES[Cardinality(DOMAIN objects) + 1]

CreateTools == {"create_rectangle", "create_circle", "create_text"}
UpdateTools == {"move_object", "resize_object", "change_color", "rotate_object"}

\* "type" of the object_data each create tool writes
ObjectType(name) ==
    CASE name = "create_rectangle" -> "rectangle"
      [] name = "create_circle" -> "circle"
      [] OTHER -> "text"

NOT_INITIALIZED == "Firebase not initialized"
NOT_FOUND == "Object {objectId} not found"
RADIUS_REQUIRED == "Radius required for resizing circles"
SERVICE_ERROR == "ServiceUnavailable"

CreatedMessage(name) == "Created " \o ObjectType(name)
DoneMessage(name) == "Done " \o name
ErrorMessage(name, e) == "Error in " \o name \o ": " \o ExcMessage(e)

\* doc_ref.set(object_data)
SetDoc(objects, id, type) ==
    [k \in DOMAIN objects \cup {id} |->
        IF k = id THEN [type |-> type, edited |-> FALSE] ELSE objects[k]]

\* doc_ref.update({...}): Firestore refuses to update a document that is not there
UpdateDoc(objects, id) ==
    IF id \in DOMAIN objects
    THEN [exc |-> "none", objects |-> [objects EXCEPT ![id].edited = TRUE]]
    ELSE [exc |-> "NotFound", objects |-> objects]

\* doc.to_dict().get("type", ""): to_dict() of a missing document is None
ReadType(objects, id) ==
    IF id \in DOMAIN objects
    THEN [exc |-> "none", type |-> objects[id].type]
    ELSE [exc |-> "AttributeError", type |-> ""]

ExistsAlways(objects, id) == TRUE

\* doc.exists
Exists(objects, id) == id \in DOMAIN objects

\* The body of the inner try: rtdb_ref = _get_realtime_db_ref() (None when
\* reference() raised); if rtdb_ref: rtdb_ref.child(...).set/update(...)
RtdbWrite(positions, id, rtdbOutcome) ==
    CASE rtdbOutcome = "ok" -> [exc |-> "none", positions |-> positions \cup {id}, writes |-> 1]
      [] rtdbOutcome = "noref" -> [exc |-> "none", positions |-> positions, writes |-> 0]
      [] OTHER -> [exc |-> SERVICE_ERROR, positions |-> positions, writes |-> 0]

RtdbHandlerPropagate(e) == e

\* except Exception as e: logger.warning(...): the exception ends here
RtdbHandler(e) == "none"

ToolOutcome(returned, objects, positions, writes, liveWrites) ==
    [result |-> returned, exc |-> "none", store |-> objects, rtdb |-> positions,
     fsWrites |-> writes, rtdbWrites |-> liveWrites]

CreatedObjectIdEmpty(id) == ""

\* "objectId": object_id of the success dictionary of a create tool
CreatedObjectId(id) == id

\* create_rectangle, create_circle, create_text
CreateTool(name, initialized, objects, positions, fsFail, rtdbOutcome) ==
    IF ~initialized
    THEN ToolOutcome(ToolResult(FALSE, "", NOT_INITIALIZED), objects, positions, 0, 0)
    ELSE IF fsFail = "write"
    THEN ToolOutcome(ToolResult(FALSE, "", ErrorMessage(name, SERVICE_ERROR)),
                     objects, positions, 0, 0)
    ELSE LET object_id == NewId(objects)
             created == SetDoc(objects, object_id, ObjectType(name))
             live == RtdbWrite(positions, object_id, rtdbOutcome)
             e == RtdbHandler(live.exc)
         IN  IF e # "none"
             THEN ToolOutcome(ToolResult(FALSE, "", ErrorMessage(name, e)),
                              created, live.positions, 1, live.writes)
             ELSE ToolOutcome(ToolResult(TRUE, CreatedObjectId(object_id), CreatedMessage(name)),
                              created, live.positions, 1, live.writes)

\* what the tool does between the existence check and doc_ref.update:
\* resize_object reads the type and wants a radius for a circle
BeforeUpdate(name, objects, objectId, radiusGiven) ==
    IF name # "resize_object" THEN [exc |-> "none", refused |-> FALSE]
    ELSE LET read == ReadType(objects, objectId)
         IN  [exc |-> read.exc,
              refused |-> read.exc = "none" /\ read.type = "circle" /\ ~radiusGiven]

\* move_object, resize_object, change_color, rotate_object
UpdateTool(name, initialized, objects, positions, objectId, radiusGiven, fsFail, rtdbOutcome) ==
    LET Failed(message) == ToolOutcome(ToolResult(FALSE, objectId, message), objects, positions, 0, 0)
    IN  IF ~initialized THEN Failed(NOT_INITIALIZED)
        ELSE IF fsFail = "read" THEN Failed(ErrorMessage(name, SERVICE_ERROR))
        ELSE IF ~Exists(objects, objectId) THEN Failed(NOT_FOUND)
        ELSE LET before == BeforeUpdate(name, objects, objectId, radiusGiven)
             IN  IF before.exc # "none" THEN Failed(ErrorMessage(name, before.exc))
                 ELSE IF before.refused THEN Failed(RADIUS_REQUIRED)
                 ELSE IF fsFail = "write" THEN Failed(ErrorMessage(name, SERVICE_ERROR))
                 ELSE LET updated == UpdateDoc(objects, objectId)
                      IN  IF updated.exc # "none" THEN Failed(ErrorMessage(name, updated.exc))
                          ELSE IF name # "move_object"
                          THEN ToolOutcome(ToolResult(TRUE, objectId, DoneMessage(name)),
                                           updated.objects, positions, 1, 0)
                          ELSE LET live == RtdbWrite(positions, objectId, rtdbOutcome)
                                   e == RtdbHandler(live.exc)
                               IN  IF e # "none"
                                   THEN ToolOutcome(ToolResult(FALSE, objectId, ErrorMessage(name, e)),
                                                    updated.objects, live.positions, 1, live.writes)
                                   ELSE ToolOutcome(ToolResult(TRUE, objectId, DoneMessage(name)),
                                                    updated.objects, live.positions, 1, live.writes)

nonToolVars == <<coreVars, routeVars, startupVars, storeVars, runVars, promptVars, docVars>>

Ran(call, out) ==
    /\ tpc = "idle"
    /\ toolCall' = call
    /\ storeBefore' = store
    /\ rtdbBefore' = rtdb
    /\ store' = out.store
    /\ rtdb' = out.rtdb
    /\ toolResult' = out.result
    /\ toolExc' = out.exc
    /\ fsWrites' = out.fsWrites
    /\ rtdbWrites' = out.rtdbWrites
    /\ tpc' = "done"
    /\ UNCHANGED prevMissing
    /\ UNCHANGED nonToolVars

\* one call of a create tool by the agent
RunCreateTool(name, fsFail, rtdbOutcome) ==
    /\ Cardinality(DOMAIN store) < MaxDocs
    /\ Ran(CanvasCall(name, "", FALSE, fsFail, rtdbOutcome),
           CreateTool(name, fbInit, store, rtdb, fsFail, rtdbOutcome))

\* one call of an update tool by the agent
RunUpdateTool(name, objectId, radiusGiven, fsFail, rtdbOutcome) ==
    Ran(CanvasCall(name, objectId, radiusGiven, fsFail, rtdbOutcome),
        UpdateTool(name, fbInit, store, rtdb, objectId, radiusGiven, fsFail, rtdbOutcome))

\* the agent takes the result and goes on to its next tool call
ToolFinish ==
    /\ tpc = "done"
    /\ tpc' = "idle"
    /\ prevMissing' = (toolResult.message = NOT_FOUND)
    /\ toolCall' = NoCanvasCall
    /\ toolResult' = NoToolResult
    /\ toolExc' = "none"
    /\ fsWrites' = 0
    /\ rtdbWrites' = 0
    /\ storeBefore' = store
    /\ rtdbBefore' = rtdb
    /\ UNCHANGED <<store, rtdb>>
    /\ UNCHANGED nonToolVars

RtdbOutcomes == {"ok", "noref", "raise"}

ToolNext ==
    \/ /\ tpc = "idle"
       /\ InitializeFirebase
    \/ /\ tpc = "idle"
       /\ \E name \in CreateTools, fsFail \in {"none", "write"}, rtdbOutcome \in RtdbOutcomes :
             RunCreateTool(name, fsFail, rtdbOutcome)
    \/ /\ tpc = "idle"
       /\ \E name \in UpdateTools, objectId \in ObjectIds \cup {GHOST_ID}, radiusGiven \in BOOLEAN,
             fsFail \in {"none", "read", "write"}, rtdbOutcome \in RtdbOutcomes :
             /\ (name # "resize_object" => radiusGiven)
             /\ (name # "move_object" => rtdbOutcome = "ok")
             /\ RunUpdateTool(name, objectId, radiusGiven, fsFail, rtdbOutcome)
    \/ ToolFinish

ToolSpec == ServerInit /\ [][ToolNext]_vars

\* ------------------------------------------------------------------------
\* Properties of the canvas tools
\* ------------------------------------------------------------------------
ToolReturned == tpc = "done"

\* an update tool ran with an objectId no document of the store has
UpdatedMissing ==
    /\ ToolReturned
    /\ toolCall.name \in UpdateTools
    /\ toolCall.objectId \notin DOMAIN storeBefore

NothingWritten ==
    /\ store = storeBefore
    /\ rtdb = rtdbBefore
    /\ fsWrites = 0
    /\ rtdbWrites = 0

\* C23 as stated: an update tool given an objectId that is not in the store
\* returns success = false with the 'not found' message, writes nothing to
\* the store or the live-update channel, and does not raise.
C23_MissingObjectNotFound ==
    UpdatedMissing =>
        /\ ~toolResult.success
        /\ toolResult.message = NOT_FOUND
        /\ NothingWritten
        /\ toolExc = "none"

\* C23 amended: an update tool given an objectId that is not in the store
\* returns success = false, writes nothing and does not raise; its message
\* is 'not found' when the store is initialised and the lookup returned, and
\* names the failure when the store is uninitialised or the lookup raised.
C23_MissingObjectNeverWritten ==
    UpdatedMissing =>
        /\ ~toolResult.success
        /\ toolResult.objectId = toolCall.objectId
        /\ toolResult.message =
              IF ~fbInit THEN NOT_INITIALIZED
              ELSE IF toolCall.fsFail = "read" THEN ErrorMessage(toolCall.name, SERVICE_ERROR)
              ELSE NOT_FOUND
        /\ NothingWritten
        /\ toolExc = "none"

\* a 'not found' return that follows another 'not found' return
C23_Witness ==
    /\ UpdatedMissing
    /\ prevMissing
    /\ toolResult.message = NOT_FOUND

\* the call after a 'not found' return runs and succeeds
C23_NextActionRuns ==
    /\ ToolReturned
    /\ prevMissing
    /\ toolResult.success

\* the live-update write of the call failed after its document-store write
LiveUpdateFailed ==
    /\ ToolReturned
    /\ toolCall.name \in CreateTools \cup {"move_object"}
    /\ toolCall.rtdbOutcome \in {"noref", "raise"}
    /\ fsWrites = 1

\* C24: a failure of the Realtime DB write in a create tool or move_object
\* does not fail the action: the document-store write stays and the tool
\* returns success = true with the object's id.
C24_LiveUpdateFailureTolerated ==
    LiveUpdateFailed =>
        LET id == toolResult.objectId
        IN  /\ toolResult.success
            /\ toolExc = "none"
            /\ id \in DOMAIN store
            /\ rtdb = rtdbBefore
            /\ toolCall.name \in CreateTools =>
                  /\ id \notin DOMAIN storeBefore
                  /\ store[id].type = ObjectType(toolCall.name)
            /\ toolCall.name = "move_object" =>
                  /\ id = toolCall.objectId
                  /\ store[id].edited

C24_Witness ==
    /\ LiveUpdateFailed
    /\ toolCall.name = "create_circle"
    /\ toolCall.rtdbOutcome = "raise"
    /\ toolResult.success

C24_WitnessMove ==
    /\ LiveUpdateFailed
    /\ toolCall.name = "move_object"
    /\ toolCall.rtdbOutcome = "noref"
    /\ toolResult.success

NewDocs == DOMAIN store \ DOMAIN storeBefore

\* C28: a create tool returns success = true with a non-empty objectId
\* exactly when the call wrote one new document, which is stored under that
\* id; when it returns success = false the objectId is "" and the call
\* created no document.
C28_CreateResultMatchesStore ==
    (ToolReturned /\ toolCall.name \in CreateTools) =>
        /\ (toolResult.success /\ toolResult.objectId # "") <=>
              (fsWrites = 1 /\ Cardinality(NewDocs) = 1)
        /\ toolResult.success => NewDocs = {toolResult.objectId}
        /\ ~toolResult.success =>
              /\ toolResult.objectId = ""
              /\ NewDocs = {}
              /\ fsWrites = 0
        /\ \A k \in DOMAIN storeBefore : store[k] = storeBefore[k]

\* a create call that added a second document to the store
C28_Witness ==
    /\ ToolReturned
    /\ toolCall.name \in CreateTools
    /\ toolResult.success
    /\ storeBefore # NO_OBJECTS
    /\ NewDocs = {toolResult.objectId}

\* a create call that failed on the store and created nothing
C28_WitnessFailed ==
    /\ ToolReturned
    /\ toolCall.name \in CreateTools
    /\ fbInit
    /\ ~toolResult.success
    /\ store = storeBefore
====
